---- MODULE Spec2Model ----
(***************************************************************************)
(* Session and task-execution engine of the Exchange RPA runner.           *)
(*                                                                         *)
(* Part 1: the resilient UI-action layer (rpa/lib/navigation.js) and the   *)
(* session authenticator (rpa/lib/login.js).  The Playwright page is the   *)
(* environment: every page call may succeed or throw, and the page the     *)
(* browser shows may be any page of Pages after a navigation, a click or a *)
(* wait.                                                                   *)
(***************************************************************************)
EXTENDS Integers, Sequences, FiniteSets, TLC

\* ---------------------------------------------------------------- bounds
MaxRetriesBound == 2   \* largest options.maxRetries a caller passes
MaxPolls == 2          \* polls of waitForLandingPage that fit in its timeout
MaxCalls == 2          \* top-level calls in one run of the process
MaxMessages == 2       \* messages in the mailbox
TickSeconds == 200     \* step of the clock, seconds
MaxClock == 400        \* the clock stops here
MaxFiles == 2          \* names in a scanned directory
MaxSteps == 2          \* entries of a report's menu_steps
MaxJobTicks == 2       \* milliseconds on the clock of a dashboard job
MaxRecords == 2        \* caregivers the work board returns as ready

\* -------------------------------------------------------- program constants
DefaultMaxRetries == 2
maxAttempts   == 18      \* getMFACodeViaIMAP: mailbox checks
maxWaitTime   == 30000   \* MFA_EMAIL_CONFIG.maxWaitTime, ms
checkInterval == 5000    \* MFA_EMAIL_CONFIG.checkInterval, ms
maxAge        == 300     \* MFA_EMAIL_CONFIG.emailCriteria.maxAge, seconds
minSizeBytes  == 100     \* verifyDownload(targetPath, pattern, 100, logger)
downloadMaxRetries == 1  \* executeReportDownload: maxRetries of 'trigger-download'

\* ------------------------------------------------------------------ strings
\* A URL is the sequence of its characters.  Only the path is written out:
\* the origin "https://app.hhaexchange.com" contains none of the markers
\* the code searches for.
UpperAlpha == <<"A","B","C","D","E","F","G","H","I","J","K","L","M",
                "N","O","P","Q","R","S","T","U","V","W","X","Y","Z">>
LowerAlpha == <<"a","b","c","d","e","f","g","h","i","j","k","l","m",
                "n","o","p","q","r","s","t","u","v","w","x","y","z">>

\* the characters that occur in URLs, addresses, subjects and bodies
Chars ==
    {UpperAlpha[i] : i \in 1..26} \cup {LowerAlpha[i] : i \in 1..26} \cup
    {"0","1","2","3","4","5","6","7","8","9"} \cup
    {" ", "-", ".", "/", ":", "=", "?", "@", "\n", "_"}

\* String.prototype.toLowerCase, one character at a time
lowerTable ==
    [c \in Chars |->
        IF \E i \in 1..26 : UpperAlpha[i] = c
        THEN LowerAlpha[CHOOSE i \in 1..26 : UpperAlpha[i] = c]
        ELSE c]

toLowerCaseChar(c) == lowerTable[c]

toLowerCase(s) == [i \in 1..Len(s) |-> toLowerCaseChar(s[i])]

includes(s, sub) ==
    \E i \in 1..(Len(s) - Len(sub) + 1) : SubSeq(s, i, i + Len(sub) - 1) = sub

\* markers searched for by detectMFA and waitForLandingPage (login.js) and
\* by loggedOutIndicators (navigation.js)
Marker ==
    [login |-> <<"l","o","g","i","n">>,
     signin |-> <<"s","i","g","n","i","n">>,
     slash_login |-> <<"/","l","o","g","i","n">>,
     slash_signin |-> <<"/","s","i","g","n","i","n">>,
     slash_auth |-> <<"/","a","u","t","h">>,
     session_expired |-> <<"s","e","s","s","i","o","n","-","e","x","p","i","r","e","d">>,
     logged_out |-> <<"l","o","g","g","e","d","-","o","u","t">>,
     mfa |-> <<"/","m","f","a","/">>,
     twofa |-> <<"/","2","f","a","/">>,
     verify |-> <<"/","v","e","r","i","f","y">>,
     Home |-> <<"/","H","o","m","e">>,
     Home_ns |-> <<"/","C","o","m","m","o","n","/","H","o","m","e","_","n","s",".","a","s","p","x">>]

\* URLs the browser may show
Url ==
    [login |-> <<"/","a","c","c","o","u","n","t","/","l","o","g","i","n">>,
     Login |-> <<"/","A","c","c","o","u","n","t","/","L","o","g","i","n">>,
     mfa |-> <<"/","m","f","a","/","c">>,
     twofa |-> <<"/","2","f","a","/","c">>,
     verify |-> <<"/","a","c","c","o","u","n","t","/","v","e","r","i","f","y">>,
     home |-> <<"/","C","o","m","m","o","n","/","H","o","m","e","_","n","s",".","a","s","p","x">>,
     dash |-> <<"/","d","a","s","h">>,
     ref |-> <<"/","d","a","s","h","?","r","=","l","o","g","i","n">>]

Urls == {Url.login, Url.Login, Url.mfa, Url.twofa, Url.verify, Url.home, Url.dash, Url.ref}

\* What the code can observe of a page: its URL and whether the selector
\* groups it queries match a visible element.
Pages == [url : Urls, loginForm : BOOLEAN, landedEl : BOOLEAN, mfaEl : BOOLEAN]

\* ------------------------------------------------------- page predicates
loggedOutIndicators ==
    {Marker.slash_login, Marker.slash_signin, Marker.slash_auth, Marker.session_expired, Marker.logged_out}

\* navigation.js detectLoggedOut: URL test first, then the login-form query;
\* a throwing page.$ is swallowed and reads as "still logged in".
detectLoggedOut(p, queryThrows) ==
    \/ \E ind \in loggedOutIndicators : includes(toLowerCase(p.url), ind)
    \/ (~queryThrows /\ p.loginForm)

\* login.js detectMFA: URL fragments first, then the visible MFA elements;
\* any error of the element queries is swallowed and reads as "no MFA".
mfaUrl(url) ==
    includes(url, Marker.mfa) \/ includes(url, Marker.twofa) \/ includes(url, Marker.verify)

detectMFA(p, queryThrows) ==
    \/ mfaUrl(p.url)
    \/ (~queryThrows /\ p.mfaEl)

\* login.js waitForLandingPage, the URL tests of one poll
homeUrl(url) == includes(url, Marker.Home_ns) \/ includes(url, Marker.Home)

urlLeftLogin(url) ==
    ~includes(url, Marker.mfa) /\ ~includes(url, Marker.login) /\ ~includes(url, Marker.signin)

\* One poll of waitForLandingPage: which condition, if any, reports landing.
\* q1: the page.$ of detectLoggedOut throws; q2: the indicator queries throw.
landingCondition(p, q1, q2) ==
    IF homeUrl(p.url) THEN "home"
    ELSE IF urlLeftLogin(p.url) /\ ~detectLoggedOut(p, q1) THEN "urlchange"
    ELSE IF ~q2 /\ p.landedEl THEN "element"
    ELSE "none"

\* ------------------------------------------------------------- state
VARIABLES
    pc,        \* position of the running top-level call
    fn,        \* top-level function being executed
    headless,  \* headless flag of the run
    page,      \* page shown by the browser
    safe,      \* activation of safeClick / safeFill
    ra,        \* activation of retryAction
    touched,   \* page interactions issued by the current top-level call
    ret,       \* outcome of the current top-level call
    ncalls,    \* top-level calls made so far
    lg,        \* locals of ensureLoggedIn / login / handleMFA
    mf,        \* activation of getMFACodeFromEmail / getMFACodeViaIMAP
    mail,      \* one mailbox search: the messages, the clock, the callbacks
    dl,        \* one report run: download directory, browser download, stages
    scan,      \* one scan of a download directory for a file name pattern
    cg         \* one caregiver batch: the records, the session, the tallies

vars == <<pc, fn, headless, page, safe, ra, touched, ret, ncalls, lg, mf, mail, dl, scan, cg>>

NoError   == 0    \* lastError still undefined
TypeError == -1   \* reading .message of undefined

ActionResults == {"r1", "r2"}

\* randoms: the values Math.random() takes during the call, in
\* ten-thousandths (the least one unless the caller watches the pauses);
\* pauses: the delay of each humanDelay(1000, 2000) before a retry
SafeIdle ==
    [kind |-> "none", target |-> "none", maxRetries |-> 0, attempt |-> 0,
     step |-> "idle", lastError |-> NoError, trace |-> <<>>, result |-> "none",
     randoms |-> {0}, pauses |-> <<>>]

\* entry of safeClick / safeFill: options destructured, lastError undefined
SafeStart(kind, target, maxRetries) ==
    [kind |-> kind, target |-> target, maxRetries |-> maxRetries, attempt |-> 0,
     step |-> "loop", lastError |-> NoError, trace |-> <<>>, result |-> "none",
     randoms |-> {0}, pauses |-> <<>>]

RaIdle ==
    [step |-> "idle", maxRetries |-> 0, attempt |-> 0, lastError |-> NoError,
     withShot |-> FALSE, shots |-> 0, outcomes |-> <<>>,
     result |-> "none", value |-> "none", thrown |-> NoError,
     randoms |-> {0}, pauses |-> <<>>]

RaStart(maxRetries, withShot) ==
    [RaIdle EXCEPT !.step = "loop", !.maxRetries = maxRetries, !.withShot = withShot]

\* live: verifyLoginSession's verdict; path: branch taken after detectMFA;
\* code: what getMFACodeFromEmail returned; credFailed: the credential
\* interaction whose safeFill / safeClick returned false; landing: verdict of
\* waitForLandingPage and the condition that gave it; finalLoggedOut: the
\* final detectLoggedOut of login; caught: the exception that entered
\* login's catch block; thrown: the exception login threw; shotFailed: the
\* screenshot of the catch block could not be taken.
LgIdle ==
    [live |-> "none", ranLogin |-> FALSE, path |-> "none", code |-> "none",
     prompted |-> FALSE, resumed |-> FALSE, polls |-> 0,
     landing |-> "none", landedBy |-> "none", finalLoggedOut |-> "none",
     credFailed |-> "none", shots |-> 0,
     caught |-> "none", thrown |-> "none", shotFailed |-> FALSE,
     codeWhy |-> "none"]

\* process.env as getMFACodeFromEmail reads it: EMAIL_PASSWORD or
\* EMAIL_APP_PASSWORD, HHAE_EMAIL or HHAE_USERNAME, the three AZURE_* values
EnvConfigs == [emailPassword : BOOLEAN, email : BOOLEAN, azure : BOOLEAN]

\* attempt: loop variable of getMFACodeViaIMAP, a local that is gone when the
\* function returns; imapExit: how getMFACodeViaIMAP returned; graphChecks:
\* searches made by the mail-API loop; lastCheck: outcome of the last search;
\* elapsed: Date.now() - startTime of the mail-API loop; failed: a transport
\* step threw.
MfIdle ==
    [step |-> "idle", env |-> [emailPassword |-> FALSE, email |-> FALSE, azure |-> FALSE],
     attempt |-> 0, imapExit |-> "none", graphChecks |-> 0, lastCheck |-> "none",
     elapsed |-> 0, failed |-> FALSE, result |-> "none"]

\* pr: one call of processResults (ids: messageIds; parsed: the messages
\* whose parse callback has run, erred: those it ran for with an error;
\* foundCode: the local; resolved: what settled the promise, value: with what);
\* box: the mailbox, oldest message first; now: the clock in seconds;
\* submitted: the time of the click that submitted the credentials, -1 before;
\* startTime: Date.now() recorded when the retrieval starts, -1 before;
\* op, code, source: the last search or extraction, its result and the
\* position in the box of the message the code came from; body, matched:
\* input of the last extraction and the number of the pattern used.
MailIdle ==
    [box |-> <<>>, now |-> 0, submitted |-> -1, startTime |-> -1, op |-> "none",
     code |-> <<>>, source |-> 0, body |-> <<>>, matched |-> 0,
     pr |-> [step |-> "idle", ids |-> {}, parsed |-> {}, erred |-> {},
             foundCode |-> <<>>, resolved |-> "none", value |-> <<>>]]

\* file names a download directory may hold, and their sizes in bytes
Names == {"report_a.csv", "report_b.csv", "notes.txt"}
Sizes == {0, 50, 100, 500}
Absent == -1

\* in a directory every name has its size, or Absent when it is not there

\* new RegExp(reportDef.expected_filename_regex), given by the names it accepts
expectedFilenamePattern == {"report_a.csv", "report_b.csv"}

\* dir: the download directory; force: options.force; attempt: loop variable
\* of retryAction; clicks: trigger clicks of this pipeline execution;
\* k: position in triggerAndWaitForDownload's first two steps; listening:
\* waitForEvent('download') is armed; event: the browser's download event
\* ("none", "pending" once the click produced one, "captured" by the
\* listener, "missed" when it fired with no listener); target: file written
\* by download.saveAs; checked / existing: checkExistingDownload ran and what
\* it returned; result, path: how runReport ended; fail: the error it ended
\* with.  def: the report definition of the configuration; range: the date
\* range asked for (params.fromDate, params.toDate); launched: main launched
\* the browser and logged in; pipeline: executeReportDownload was entered;
\* stages: the stages of executeReportDownload
\* started so far, in order; failedClicks: positions in stages of the stages
\* whose safeClick returned false; validation: what validateDownloadedFile
\* met; asks: the date ranges the caller ever asks for; made: the file
\* download.saveAs wrote last and the date range of the run that wrote it;
\* prev: the date range of the previous run on this directory, if that run
\* was not forced, executed the pipeline and returned a path.
\* a job of the web dashboard and the child run it spawns. now: the clock in
\* milliseconds; sessionId: job.sessionId; childSessionId: the sessionId of
\* the child's main; files: the files under downloads/, each with the name
\* of its session directory; matched: the stdout handler saw the
\* 'Downloaded file:' line in one chunk; downloadedFile: job.downloadedFile;
\* code: the child's exit code; response: the status of the download request
JobIdle ==
    [step |-> "idle", now |-> 0, reportId |-> "none", fromDate |-> "jan01",
     toDate |-> "jan31", sessionId |-> <<>>, childSessionId |-> <<>>,
     files |-> {}, status |-> "none", matched |-> FALSE,
     downloadedFile |-> [dir |-> <<>>, name |-> "none"],
     code |-> "none", response |-> "none"]

DlIdle ==
    [step |-> "idle", dir |-> [n \in Names |-> Absent], force |-> FALSE, attempt |-> 0, clicks |-> 0,
     k |-> 0, listening |-> FALSE, event |-> "none", target |-> "none",
     trigger |-> "none", checked |-> FALSE, existing |-> "none",
     result |-> "none", path |-> "none", fail |-> "none",
     def |-> [missing |-> {}, menu_steps |-> 1, run_button_selector |-> TRUE,
              validation |-> TRUE],
     range |-> "none", launched |-> FALSE, pipeline |-> FALSE, stages |-> <<>>,
     failedClicks |-> {},
     validation |-> "none", asks |-> {"jan"},
     made |-> [name |-> "none", range |-> "none"], prev |-> "none",
     argv |-> [from |-> "jan01", to |-> "jan31", credentials |-> TRUE],
     exit |-> "none", out |-> <<>>, job |-> JobIdle]

\* files: fs.readdirSync(downloadPath) with the size statSync gives for each
\* name; pattern: expectedFilenamePattern, the regular expression /lit/ or
\* /lit$/; polls: iterations of waitForDownload's loop; op: the function that
\* ran; outcome: "path" (found holds the file name returned), "null" or
\* "throw"
ScanIdle ==
    [files |-> <<>>, pattern |-> [lit |-> <<>>, anchored |-> FALSE], polls |-> 0,
     op |-> "none", found |-> <<>>, outcome |-> "none"]

\* caregivers: how many records the work board returned (record k is the
\* k-th of them); limit: argv.limit (0 when absent); dryRun: argv.dryRun;
\* stage: position in main; i: loop variable; session: whether the browser
\* session is still logged in; entry: what enterCaregiver did for record
\* i + 1 ("true", "false", or "caught" for an error it caught and turned into
\* false) and navOn: the session state its form navigation started on;
\* successful, failed, log: results.successful, results.failed and
\* results.caregivers, each log entry with the status update issued for the
\* record ("none", "ok" or "error").  caregiver: the data of record i + 1,
\* by source column ("" when the board has no value); fill: what
\* fillCaregiverForm returned; submitted: the submit button was clicked;
\* seen: what the page shows after the submit (the text of its notice, a
\* configured success indicator, an error element); verify: what
\* verifyCaregiverAdded returned
CgIdle ==
    [caregivers |-> 0, limit |-> 0, dryRun |-> FALSE, stage |-> "idle", i |-> 0,
     session |-> "none", entry |-> "none", navOn |-> "none",
     successful |-> 0, failed |-> 0, log |-> <<>>,
     caregiver |-> [email |-> "", address2 |-> "", preferredLocations |-> ""],
     fill |-> "none", submitted |-> FALSE,
     seen |-> [notice |-> <<>>, indicator |-> FALSE, error |-> FALSE],
     verify |-> "none", board |-> <<>>]

Init ==
    /\ pc = "idle"
    /\ fn = "none"
    /\ headless \in BOOLEAN
    /\ page \in Pages
    /\ safe = SafeIdle
    /\ ra = RaIdle
    /\ touched = {}
    /\ ret = "none"
    /\ ncalls = 0
    /\ lg = LgIdle
    /\ mf = MfIdle
    /\ mail = MailIdle
    /\ dl = DlIdle
    /\ scan = ScanIdle
    /\ cg = CgIdle

\* ------------------------------------------------------------ humanDelay
\* values of Math.random(), in ten-thousandths: the least and the greatest
Randoms == {0, 9999}

\* variant: the pause grows with the attempt number
humanDelayEscalating(minMs, maxMs, random, attempt) ==
    attempt * (((random * (maxMs - minMs + 1)) \div 10000) + minMs)

\* const delay = Math.floor(Math.random() * (maxMs - minMs + 1)) + minMs;
\* the callers pass no attempt number
humanDelay(minMs, maxMs, random, attempt) ==
    ((random * (maxMs - minMs + 1)) \div 10000) + minMs

\* ------------------------------------------------ safeClick and safeFill
\* variant: one attempt too many
safeLoopCondOffByOne(attempt, maxRetries) == attempt <= maxRetries + 1

\* for (let attempt = 0; attempt <= maxRetries; attempt++)
safeLoopCond(attempt, maxRetries) == attempt <= maxRetries

\* variant: the interaction is not inside the try block, its error escapes
safeCatchEscapes(s, ev) ==
    [s EXCEPT !.lastError = s.attempt + 1, !.step = "done", !.result = "throw",
              !.trace = Append(s.trace, ev)]

\* catch (error) { lastError = error; logger.warn(...) } and attempt++
safeCatch(s, ev) ==
    [s EXCEPT !.lastError = s.attempt + 1, !.attempt = s.attempt + 1,
              !.step = "loop", !.trace = Append(s.trace, ev)]

\* loop test passed: a retry first pauses, the first attempt does not
SafeLoopEnter ==
    /\ safe.step = "loop"
    /\ safeLoopCond(safe.attempt, safe.maxRetries)
    /\ safe' = [safe EXCEPT !.step = IF safe.attempt > 0 THEN "delay" ELSE "wait"]
    /\ UNCHANGED <<pc, fn, headless, page, ra, touched, ret, ncalls, lg, mf, mail, dl, scan, cg>>

\* if (attempt > 0) { logger.info(...); await humanDelay(1000, 2000); }
SafeRetryDelay ==
    /\ safe.step = "delay"
    /\ \E random \in safe.randoms :
         safe' = [safe EXCEPT !.step = "wait",
                              !.pauses = Append(safe.pauses,
                                                humanDelay(1000, 2000, random, safe.attempt))]
    /\ UNCHANGED <<pc, fn, headless, page, ra, touched, ret, ncalls, lg, mf, mail, dl, scan, cg>>

\* await page.waitForSelector(selector, {state: 'visible', timeout}); humanDelay()
SafeWaitForSelector ==
    /\ safe.step = "wait"
    /\ \E ok \in BOOLEAN :
         safe' = IF ok
                 THEN [safe EXCEPT !.step = "act", !.trace = Append(safe.trace, "wait_ok")]
                 ELSE safeCatch(safe, "wait_throw")
    /\ touched' = touched \cup {safe.target}
    /\ UNCHANGED <<pc, fn, headless, page, ra, ret, ncalls, lg, mf, mail, dl, scan, cg>>

\* await page.click / page.fill; on success log and return true.
\* A click may navigate the browser; a fill leaves the page where it is.
SafeInteract ==
    /\ safe.step = "act"
    /\ \E ok \in BOOLEAN :
         /\ safe' = IF ok
                    THEN [safe EXCEPT !.step = "done", !.result = "true",
                                      !.trace = Append(safe.trace, "act_ok")]
                    ELSE safeCatch(safe, "act_throw")
         /\ IF ok /\ safe.kind = "click"
            THEN page' \in Pages
            ELSE page' = page
    /\ UNCHANGED <<pc, fn, headless, ra, touched, ret, ncalls, lg, mf, mail, dl, scan, cg>>

\* loop left: logger.error(`... ${lastError.message}`); return false;
\* with lastError undefined the template throws a TypeError.
SafeExhausted ==
    /\ safe.step = "loop"
    /\ ~safeLoopCond(safe.attempt, safe.maxRetries)
    /\ safe' = [safe EXCEPT !.step = "done",
                            !.result = IF safe.lastError = NoError THEN "throw" ELSE "false"]
    /\ UNCHANGED <<pc, fn, headless, page, ra, touched, ret, ncalls, lg, mf, mail, dl, scan, cg>>

SafeStep ==
    \/ SafeLoopEnter
    \/ SafeRetryDelay
    \/ SafeWaitForSelector
    \/ SafeInteract
    \/ SafeExhausted

\* ----------------------------------------------------------- retryAction
retryLoopCond(attempt, maxRetries) == attempt <= maxRetries

\* variant: only the first error is remembered
retryCatchKeepsFirst(r) ==
    [r EXCEPT !.lastError = IF r.lastError = NoError THEN r.attempt + 1 ELSE r.lastError,
              !.attempt = r.attempt + 1,
              !.step = "loop",
              !.outcomes = Append(r.outcomes, "throw"),
              !.shots = IF r.withShot THEN r.shots + 1 ELSE r.shots]

\* catch (error) { lastError = error; ... screenshot if page && sessionId }
\* captureFailureScreenshot swallows its own errors.
retryCatch(r) ==
    [r EXCEPT !.lastError = r.attempt + 1, !.attempt = r.attempt + 1,
              !.step = "loop",
              !.outcomes = Append(r.outcomes, "throw"),
              !.shots = IF r.withShot THEN r.shots + 1 ELSE r.shots]

RetryLoopEnter ==
    /\ ra.step = "loop"
    /\ retryLoopCond(ra.attempt, ra.maxRetries)
    /\ ra' = [ra EXCEPT !.step = IF ra.attempt > 0 THEN "delay" ELSE "run"]
    /\ UNCHANGED <<pc, fn, headless, page, safe, touched, ret, ncalls, lg, mf, mail, dl, scan, cg>>

\* await humanDelay(2000, 3000)
RetryDelay ==
    /\ ra.step = "delay"
    /\ \E random \in ra.randoms :
         ra' = [ra EXCEPT !.step = "run",
                          !.pauses = Append(ra.pauses,
                                            humanDelay(2000, 3000, random, ra.attempt))]
    /\ UNCHANGED <<pc, fn, headless, page, safe, touched, ret, ncalls, lg, mf, mail, dl, scan, cg>>

\* const result = await action(); return result;  -- or the catch block.
\* The error thrown by attempt k is identified by k+1.
RetryRunAction ==
    /\ ra.step = "run"
    /\ \/ \E v \in ActionResults :
            ra' = [ra EXCEPT !.step = "done", !.result = "return", !.value = v,
                             !.outcomes = Append(ra.outcomes, v)]
       \/ ra' = retryCatch(ra)
    /\ UNCHANGED <<pc, fn, headless, page, safe, touched, ret, ncalls, lg, mf, mail, dl, scan, cg>>

\* logger.error(`... ${lastError.message}`); throw lastError;
RetryExhausted ==
    /\ ra.step = "loop"
    /\ ~retryLoopCond(ra.attempt, ra.maxRetries)
    /\ ra' = [ra EXCEPT !.step = "done", !.result = "throw",
                        !.thrown = IF ra.lastError = NoError THEN TypeError
                                   ELSE ra.lastError]
    /\ UNCHANGED <<pc, fn, headless, page, safe, touched, ret, ncalls, lg, mf, mail, dl, scan, cg>>

RetryStep ==
    \/ RetryLoopEnter
    \/ RetryDelay
    \/ RetryRunAction
    \/ RetryExhausted

\* ------------------------------------------------------- top-level calls
\* A caller invokes safeClick / safeFill with some options.maxRetries.
CallSafe ==
    /\ pc = "idle" /\ ncalls < MaxCalls
    /\ \E kind \in {"click", "fill"}, m \in -1..MaxRetriesBound :
         /\ fn' = IF kind = "click" THEN "safeClick" ELSE "safeFill"
         /\ safe' = [SafeStart(kind, "target", m) EXCEPT !.randoms = Randoms]
    /\ pc' = "safe_call"
    /\ ncalls' = ncalls + 1
    /\ touched' = {}
    /\ ret' = "none"
    /\ UNCHANGED <<headless, page, ra, lg, mf, mail, dl, scan, cg>>

ReturnSafe ==
    /\ pc = "safe_call" /\ safe.step = "done"
    /\ ret' = safe.result
    /\ pc' = "done"
    /\ UNCHANGED <<fn, headless, page, safe, ra, touched, ncalls, lg, mf, mail, dl, scan, cg>>

CallRetryAction ==
    /\ pc = "idle" /\ ncalls < MaxCalls
    /\ \E m \in -1..MaxRetriesBound, withShot \in BOOLEAN :
         ra' = [RaStart(m, withShot) EXCEPT !.randoms = Randoms]
    /\ fn' = "retryAction"
    /\ pc' = "retry_call"
    /\ ncalls' = ncalls + 1
    /\ touched' = {}
    /\ ret' = "none"
    /\ UNCHANGED <<headless, page, safe, lg, mf, mail, dl, scan, cg>>

ReturnRetryAction ==
    /\ pc = "retry_call" /\ ra.step = "done"
    /\ ret' = ra.result
    /\ pc' = "done"
    /\ UNCHANGED <<fn, headless, page, safe, ra, touched, ncalls, lg, mf, mail, dl, scan, cg>>

\* ---------------------------------------------------------------- login

\* return <value> from login (and so from ensureLoggedIn); shot: a failure
\* screenshot was requested first (captureFailureScreenshot never throws)
LoginReturn(value, shot, l) ==
    /\ ret' = value
    /\ pc' = "done"
    /\ lg' = [l EXCEPT !.shots = IF shot THEN l.shots + 1 ELSE l.shots]

\* variant: the verdict of detectLoggedOut is not negated
verifyLoginSessionInverted(p, queryThrows) == detectLoggedOut(p, queryThrows)

\* verifyLoginSession: the negation of detectLoggedOut
verifyLoginSession(p, queryThrows) == ~detectLoggedOut(p, queryThrows)

CallLogin ==
    /\ pc = "idle" /\ ncalls < MaxCalls
    /\ fn' = "login"
    /\ pc' = "login_goto"
    /\ ncalls' = ncalls + 1
    /\ touched' = {}
    /\ ret' = "none"
    /\ lg' = [LgIdle EXCEPT !.ranLogin = TRUE]
    /\ UNCHANGED <<headless, page, safe, ra, mf, mail, dl, scan, cg>>

CallEnsureLoggedIn ==
    /\ pc = "idle" /\ ncalls < MaxCalls
    /\ fn' = "ensureLoggedIn"
    /\ pc' = "ensure_verify"
    /\ ncalls' = ncalls + 1
    /\ touched' = {}
    /\ ret' = "none"
    /\ lg' = LgIdle
    /\ UNCHANGED <<headless, page, safe, ra, mf, mail, dl, scan, cg>>

\* ensureLoggedIn: const isLoggedIn = await verifyLoginSession(page, logger);
\* if (!isLoggedIn) return await login(...); return true;
EnsureLoggedIn ==
    /\ pc = "ensure_verify"
    /\ \E q \in BOOLEAN :
         IF verifyLoginSession(page, q)
         THEN /\ ret' = "true"
              /\ pc' = "done"
              /\ lg' = [lg EXCEPT !.live = "true"]
         ELSE /\ ret' = ret
              /\ pc' = "login_goto"
              /\ lg' = [lg EXCEPT !.live = "false", !.ranLogin = TRUE]
    /\ UNCHANGED <<page, safe, touched>>
    /\ UNCHANGED <<fn, headless, ra, ncalls, mail, dl, scan, cg>>
    /\ UNCHANGED mf

\* await page.goto(LOGIN_CONFIG.url, ...)
LoginGoto ==
    /\ pc = "login_goto"
    /\ touched' = touched \cup {"goto"}
    /\ page' \in Pages
    /\ \E ok \in BOOLEAN :
         /\ pc' = IF ok THEN "login_stable" ELSE "login_catch"
         /\ lg' = IF ok THEN lg ELSE [lg EXCEPT !.caught = "goto_error"]
    /\ UNCHANGED <<safe, ret>>
    /\ UNCHANGED <<fn, headless, ra, ncalls, mail, dl, scan, cg>>
    /\ UNCHANGED mf

\* await waitForStableUI(page): networkidle, else domcontentloaded, which
\* may itself time out and throw
LoginStableUI ==
    /\ pc = "login_stable"
    /\ \E ok \in BOOLEAN :
         /\ pc' = IF ok THEN "cred" ELSE "login_catch"
         /\ lg' = IF ok THEN lg ELSE [lg EXCEPT !.caught = "stable_error"]
    /\ UNCHANGED <<page, safe, touched, ret>>
    /\ UNCHANGED <<fn, headless, ra, ncalls, mail, dl, scan, cg>>
    /\ UNCHANGED mf

\* performCredentialEntry: the three interactions, in program order
CredSteps ==
    <<[kind |-> "fill",  target |-> "username"],
      [kind |-> "fill",  target |-> "password"],
      [kind |-> "click", target |-> "submit"]>>

\* the next interaction performCredentialEntry starts: the first one whose
\* target has not been worked on yet
credNext(done) ==
    IF \E i \in 1..Len(CredSteps) : CredSteps[i].target \notin done
    THEN CHOOSE i \in 1..Len(CredSteps) :
           /\ CredSteps[i].target \notin done
           /\ \A j \in 1..(i-1) : CredSteps[j].target \in done
    ELSE 0

\* variant: the boolean is not looked at
credAfterIgnoresResult(result) ==
    IF result = "throw" THEN "throw" ELSE "continue"

\* what performCredentialEntry does with the boolean of a safeFill /
\* safeClick: go on with the next interaction, or screenshot and return false
credAfter(result) ==
    IF result = "true" THEN "continue"
    ELSE IF result = "false" THEN "fail"
    ELSE "throw"

PerformCredentialEntryStart ==
    /\ pc = "cred"
    /\ LET i == credNext(touched \ {"goto"}) IN
         safe' = SafeStart(CredSteps[i].kind, CredSteps[i].target, DefaultMaxRetries)
    /\ pc' = "cred_wait"
    /\ UNCHANGED <<page, touched, ret, lg>>
    /\ UNCHANGED <<fn, headless, ra, ncalls, mail, dl, scan, cg>>
    /\ UNCHANGED mf

PerformCredentialEntryDone ==
    /\ pc = "cred_wait" /\ safe.step = "done"
    /\ safe' = SafeIdle
    /\ LET a == credAfter(safe.result)
           l == IF safe.result = "false"
                THEN [lg EXCEPT !.credFailed = safe.target] ELSE lg
       IN
         IF a = "continue"
         THEN /\ pc' = IF credNext(touched \ {"goto"}) = 0 THEN "post_submit" ELSE "cred"
              /\ lg' = l
              /\ ret' = ret
         ELSE IF a = "fail"
         THEN LoginReturn("false", TRUE, l)
         ELSE /\ pc' = "login_catch"
              /\ lg' = [l EXCEPT !.caught = "type_error"]
              /\ ret' = ret
    /\ UNCHANGED <<page, touched>>
    /\ UNCHANGED <<fn, headless, ra, ncalls, mail, dl, scan, cg>>
    /\ UNCHANGED mf

\* await humanDelay(1000, 2000); await waitForStableUI(page);
\* the portal answers the submit meanwhile
LoginPostSubmit ==
    /\ pc = "post_submit"
    /\ page' \in Pages
    /\ \E ok \in BOOLEAN :
         /\ pc' = IF ok THEN "detect_mfa" ELSE "login_catch"
         /\ lg' = IF ok THEN lg ELSE [lg EXCEPT !.caught = "settle_error"]
    /\ UNCHANGED <<safe, touched, ret>>
    /\ UNCHANGED <<fn, headless, ra, ncalls, mail, dl, scan, cg>>
    /\ UNCHANGED mf

\* const mfaRequired = await detectMFA(page, logger);
LoginDetectMFA ==
    /\ pc = "detect_mfa"
    /\ \E q \in BOOLEAN :
         IF detectMFA(page, q)
         THEN pc' = "mfa_get_code" /\ lg' = [lg EXCEPT !.path = "mfa"]
         ELSE pc' = "landing_poll" /\ lg' = [lg EXCEPT !.path = "nomfa"]
    /\ UNCHANGED <<page, safe, touched, ret>>
    /\ UNCHANGED <<fn, headless, ra, ncalls, mail, dl, scan, cg>>
    /\ UNCHANGED mf

\* variant: the headless test is missing
mfaNoCodeAlwaysWaits(isHeadless) == "landing"

\* ------------------------------------------------- getMFACodeFromEmail

\* variant: no try / catch around the retrieval, a transport error escapes
mfCatchEscapes(m) == [m EXCEPT !.step = "done", !.result = "throw", !.failed = TRUE]

\* getMFACodeFromEmail: catch (error) { logger.error(...); return null; }
mfCatch(m) == [m EXCEPT !.step = "done", !.result = "null", !.failed = TRUE]

\* variant: the loop bound is not enforced
imapLoopCondUnbounded(attempt) == attempt <= maxAttempts + 1

\* getMFACodeViaIMAP: for (let attempt = 1; attempt <= maxAttempts; attempt++)
imapLoopCond(attempt) == attempt <= maxAttempts

\* getMFACodeFromEmail: while (Date.now() - startTime < maxWaitTime)
graphLoopCond(elapsed) == elapsed < maxWaitTime

\* handleMFA calls getMFACodeFromEmail(logger)
HandleMFAStartRetrieval ==
    /\ pc = "mfa_get_code" /\ mf.step = "idle"
    /\ \E env \in EnvConfigs : mf' = [MfIdle EXCEPT !.step = "entry", !.env = env]
    /\ UNCHANGED <<pc, fn, headless, page, safe, ra, touched, ret, ncalls, lg, mail, dl, scan, cg>>

\* if (emailPassword) { const { getMFACodeViaIMAP } = await import(...); ... }
\* the dynamic import may fail, which lands in the catch block
GetMFACodeFromEmailEntry ==
    /\ mf.step = "entry"
    /\ IF mf.env.emailPassword
       THEN \E importOk \in BOOLEAN :
              mf' = IF importOk THEN [mf EXCEPT !.step = "imap_entry"] ELSE mfCatch(mf)
       ELSE mf' = [mf EXCEPT !.step = "graph_cfg"]
    /\ UNCHANGED <<pc, fn, headless, page, safe, ra, touched, ret, ncalls, lg, mail, dl, scan, cg>>

\* getMFACodeViaIMAP: if (!email || !emailPassword) return null; startTime;
\* then the polling loop
GetMFACodeViaIMAPEntry ==
    /\ mf.step = "imap_entry"
    /\ mf' = IF ~mf.env.email \/ ~mf.env.emailPassword
             THEN [mf EXCEPT !.step = "graph_cfg", !.imapExit = "unconfigured"]
             ELSE IF imapLoopCond(1)
             THEN [mf EXCEPT !.step = "imap_check", !.attempt = 1]
             ELSE [mf EXCEPT !.step = "graph_cfg", !.imapExit = "exhausted"]
    /\ UNCHANGED <<pc, fn, headless, page, safe, ra, touched, ret, ncalls, lg, mail, dl, scan, cg>>

\* one iteration: code = await searchIMAPForMFACode(...); a code is returned
\* at once (and getMFACodeFromEmail returns it); otherwise wait 5 s unless
\* this was the last attempt; a rejection ends in getMFACodeViaIMAP's catch.
\* A null of getMFACodeViaIMAP sends getMFACodeFromEmail on to the mail API.
GetMFACodeViaIMAPCheck ==
    /\ mf.step = "imap_check"
    /\ \E out \in {"code", "empty", "throw"} :
         LET m == [mf EXCEPT !.lastCheck = out] IN
         mf' = IF out = "code"
               THEN [m EXCEPT !.step = "done", !.imapExit = "code", !.result = "code",
                              !.attempt = 0]
               ELSE IF out = "throw"
               THEN [m EXCEPT !.step = "graph_cfg", !.imapExit = "error",
                              !.failed = TRUE, !.attempt = 0]
               ELSE IF imapLoopCond(mf.attempt + 1)
               THEN [m EXCEPT !.step = "imap_wait"]
               ELSE [m EXCEPT !.step = "graph_cfg", !.imapExit = "exhausted",
                              !.attempt = 0]
    /\ UNCHANGED <<pc, fn, headless, page, safe, ra, touched, ret, ncalls, lg, mail, dl, scan, cg>>

\* await new Promise(resolve => setTimeout(resolve, delayBetweenAttempts)); attempt++
GetMFACodeViaIMAPWait ==
    /\ mf.step = "imap_wait"
    /\ mf' = [mf EXCEPT !.step = "imap_check", !.attempt = mf.attempt + 1]
    /\ UNCHANGED <<pc, fn, headless, page, safe, ra, touched, ret, ncalls, lg, mail, dl, scan, cg>>

\* if (!clientId || !clientSecret || !tenantId) { ...; return null; }
GetMFACodeGraphConfig ==
    /\ mf.step = "graph_cfg"
    /\ mf' = IF mf.env.azure
             THEN [mf EXCEPT !.step = "graph_token"]
             ELSE [mf EXCEPT !.step = "done", !.result = "null"]
    /\ UNCHANGED <<pc, fn, headless, page, safe, ra, touched, ret, ncalls, lg, mail, dl, scan, cg>>

\* const accessToken = await getAccessToken(client); const startTime = Date.now()
GetMFACodeGraphToken ==
    /\ mf.step = "graph_token"
    /\ \E ok \in BOOLEAN :
         mf' = IF ok THEN [mf EXCEPT !.step = "graph_loop", !.elapsed = 0]
               ELSE mfCatch(mf)
    /\ UNCHANGED <<pc, fn, headless, page, safe, ra, touched, ret, ncalls, lg, mail, dl, scan, cg>>

\* the while test; when it fails: logger.warn('Timed out ...'); return null
GetMFACodeGraphLoop ==
    /\ mf.step = "graph_loop"
    /\ mf' = IF graphLoopCond(mf.elapsed)
             THEN [mf EXCEPT !.step = "graph_search"]
             ELSE [mf EXCEPT !.step = "done", !.result = "null"]
    /\ UNCHANGED <<pc, fn, headless, page, safe, ra, touched, ret, ncalls, lg, mail, dl, scan, cg>>

\* code = await searchOutlookForMFACode(...), which takes some time; a code
\* is returned at once, a failed request lands in the catch block, otherwise
\* the loop sleeps checkInterval
GetMFACodeGraphSearch ==
    /\ mf.step = "graph_search"
    /\ \E out \in {"code", "empty", "throw"}, latency \in {0, checkInterval} :
         LET m == [mf EXCEPT !.graphChecks = mf.graphChecks + 1, !.lastCheck = out,
                             !.elapsed = mf.elapsed + latency] IN
         mf' = IF out = "code"
               THEN [m EXCEPT !.step = "done", !.result = "code"]
               ELSE IF out = "throw"
               THEN mfCatch(m)
               ELSE [m EXCEPT !.step = "graph_loop",
                              !.elapsed = m.elapsed + checkInterval]
    /\ UNCHANGED <<pc, fn, headless, page, safe, ra, touched, ret, ncalls, lg, mail, dl, scan, cg>>

GetMFACodeStep ==
    \/ HandleMFAStartRetrieval
    \/ GetMFACodeFromEmailEntry
    \/ GetMFACodeViaIMAPEntry
    \/ GetMFACodeViaIMAPCheck
    \/ GetMFACodeViaIMAPWait
    \/ GetMFACodeGraphConfig
    \/ GetMFACodeGraphToken
    \/ GetMFACodeGraphLoop
    \/ GetMFACodeGraphSearch

\* handleMFA, the branch without a code: headless returns false at once,
\* headful logs the banner and goes on to the landing-page wait
mfaNoCode(isHeadless) == IF isHeadless THEN "fail" ELSE "landing"

\* handleMFA: const mfaCode = await getMFACodeFromEmail(logger); if (mfaCode)
\* ... else ...   An exception of the call would leave handleMFA and land in
\* login's catch block.
HandleMFAGetCode ==
    /\ pc = "mfa_get_code" /\ mf.step = "done"
    /\ mf' = MfIdle
    /\ LET code == mf.result
           l == [lg EXCEPT !.code = code,
                           !.codeWhy = IF code # "null" THEN "none"
                                       ELSE IF mf.failed THEN "transport"
                                       ELSE IF /\ mf.imapExit \in {"none", "unconfigured"}
                                               /\ ~mf.env.azure
                                       THEN "unconfigured"
                                       ELSE "timeout"]
       IN
         IF code = "throw"
         THEN /\ pc' = "login_catch"
              /\ lg' = [l EXCEPT !.caught = "mfa_error"]
              /\ ret' = ret
         ELSE IF code = "code"
         THEN /\ pc' = "mfa_fill_code"
              /\ lg' = l
              /\ ret' = ret
         ELSE IF mfaNoCode(headless) = "fail"
         THEN LoginReturn("false", TRUE, l)
         ELSE /\ pc' = "mfa_landing_delay"
              /\ lg' = l
              /\ ret' = ret
    /\ UNCHANGED <<page, safe, touched>>
    /\ UNCHANGED <<fn, headless, ra, ncalls, mail, dl, scan, cg>>

\* handleMFA: try the code-input selectors in turn; codeFilled says whether
\* one of them was visible and took the code
HandleMFAFillCode ==
    /\ pc = "mfa_fill_code"
    /\ \E codeFilled \in BOOLEAN :
         IF codeFilled
         THEN /\ pc' = "mfa_submit"
              /\ UNCHANGED <<ret, lg>>
         ELSE IF headless
         THEN LoginReturn("false", TRUE, lg)
         ELSE /\ pc' = "mfa_prompt"
              /\ lg' = [lg EXCEPT !.prompted = TRUE]
              /\ ret' = ret
    /\ UNCHANGED <<page, safe, touched>>
    /\ UNCHANGED <<fn, headless, ra, ncalls, mail, dl, scan, cg>>
    /\ UNCHANGED mf

\* handleMFA: try the submit selectors in turn; without a submit control a
\* headful run prompts the operator, a headless run just goes on
HandleMFASubmitCode ==
    /\ pc = "mfa_submit"
    /\ \E submitted \in BOOLEAN :
         IF submitted
         THEN /\ pc' = "mfa_landing_delay"
              /\ page' \in Pages
              /\ lg' = lg
         ELSE IF headless
         THEN /\ pc' = "mfa_landing_delay"
              /\ page' = page
              /\ lg' = lg
         ELSE /\ pc' = "mfa_prompt"
              /\ page' = page
              /\ lg' = [lg EXCEPT !.prompted = TRUE]
    /\ UNCHANGED <<safe, touched, ret>>
    /\ UNCHANGED <<fn, headless, ra, ncalls, mail, dl, scan, cg>>
    /\ UNCHANGED mf

\* promptForMFA: rl.question resolves when the operator presses ENTER;
\* the operator has worked in the browser window meanwhile
PromptForMFAResume ==
    /\ pc = "mfa_prompt"
    /\ page' \in Pages
    /\ lg' = [lg EXCEPT !.resumed = TRUE]
    /\ pc' = "mfa_landing_delay"
    /\ UNCHANGED <<safe, touched, ret>>
    /\ UNCHANGED <<fn, headless, ra, ncalls, mail, dl, scan, cg>>
    /\ UNCHANGED mf

\* handleMFA: await humanDelay(500, 1000) before waitForLandingPage
HandleMFALandingDelay ==
    /\ pc = "mfa_landing_delay"
    /\ page' \in Pages
    /\ pc' = "landing_poll"
    /\ UNCHANGED <<safe, touched, ret, lg>>
    /\ UNCHANGED <<fn, headless, ra, ncalls, mail, dl, scan, cg>>
    /\ UNCHANGED mf

\* variant: handleMFA only warns on a timeout, like the no-MFA branch
afterLandingNeverFails(path, landing) == "final"

\* what the caller of waitForLandingPage does with its verdict: handleMFA
\* fails on a timeout, the no-MFA branch of login only warns
afterLanding(path, landing) ==
    IF path = "mfa" /\ landing = "timeout" THEN "fail" ELSE "final"

\* variant: the start time is taken anew in every iteration
landingElapsedRestarts(polls) == polls

\* Date.now() - startTime after one more iteration, in iterations: startTime
\* is fixed before the loop and every iteration ends with humanDelay(500, 1000)
landingElapsed(polls) == polls + 1

\* waitForLandingPage, one iteration of the while loop: the three tests,
\* then humanDelay(500, 1000) during which the browser may move on
WaitForLandingPagePoll ==
    /\ pc = "landing_poll"
    /\ lg.polls < MaxPolls
    /\ \E q1 \in BOOLEAN, q2 \in BOOLEAN :
         LET c == landingCondition(page, q1, q2) IN
         IF c # "none"
         THEN /\ lg' = [lg EXCEPT !.landing = "detected", !.landedBy = c]
              /\ pc' = "final_delay"
              /\ page' = page
         ELSE /\ lg' = [lg EXCEPT !.polls = landingElapsed(lg.polls)]
              /\ pc' = pc
              /\ page' \in Pages
    /\ UNCHANGED <<safe, touched, ret>>
    /\ UNCHANGED <<fn, headless, ra, ncalls, mail, dl, scan, cg>>
    /\ UNCHANGED mf

\* waitForLandingPage: the timeout elapsed, return false
WaitForLandingPageTimeout ==
    /\ pc = "landing_poll"
    /\ lg.polls >= MaxPolls
    /\ LET l == [lg EXCEPT !.landing = "timeout"] IN
         IF afterLanding(lg.path, "timeout") = "fail"
         THEN LoginReturn("false", TRUE, l)
         ELSE /\ pc' = "final_delay"
              /\ lg' = l
              /\ ret' = ret
    /\ UNCHANGED <<page, safe, touched>>
    /\ UNCHANGED <<fn, headless, ra, ncalls, mail, dl, scan, cg>>
    /\ UNCHANGED mf

\* login: await humanDelay(300, 500) before the final verification
LoginFinalDelay ==
    /\ pc = "final_delay"
    /\ page' \in Pages
    /\ pc' = "final_check"
    /\ UNCHANGED <<safe, touched, ret, lg>>
    /\ UNCHANGED <<fn, headless, ra, ncalls, mail, dl, scan, cg>>
    /\ UNCHANGED mf

\* variant: the final verification is not acted upon
finalVerdictAlwaysTrue(isLoggedOut) == "true"

\* the value login returns after its final detectLoggedOut
finalVerdict(isLoggedOut) == IF isLoggedOut THEN "false" ELSE "true"

\* login: const isLoggedOut = await detectLoggedOut(page, logger);
LoginFinalCheck ==
    /\ pc = "final_check"
    /\ \E q \in BOOLEAN :
         LET out == detectLoggedOut(page, q) IN
         LoginReturn(finalVerdict(out), out,
                     [lg EXCEPT !.finalLoggedOut = IF out THEN "true" ELSE "false"])
    /\ UNCHANGED <<page, safe, touched>>
    /\ UNCHANGED <<fn, headless, ra, ncalls, mail, dl, scan, cg>>
    /\ UNCHANGED mf

\* variant: an error of the screenshot replaces the original one
loginRethrowShotError(caught, shotOk) ==
    IF shotOk THEN caught ELSE "screenshot_error"

\* login: throw error -- the error the catch block received
loginRethrow(caught, shotOk) == caught

\* login: catch (error) { logger.error; await captureFailureScreenshot(...);
\* throw error; }  captureFailureScreenshot catches a failing page.screenshot
\* and returns null.
LoginCatch ==
    /\ pc = "login_catch"
    /\ \E shotOk \in BOOLEAN :
         LoginReturn("throw", TRUE,
                     [lg EXCEPT !.thrown = loginRethrow(lg.caught, shotOk),
                                !.shotFailed = ~shotOk])
    /\ UNCHANGED <<page, safe, touched>>
    /\ UNCHANGED <<fn, headless, ra, ncalls, mail, dl, scan, cg>>
    /\ UNCHANGED mf

LoginStep ==
    \/ EnsureLoggedIn
    \/ LoginGoto
    \/ LoginStableUI
    \/ PerformCredentialEntryStart
    \/ PerformCredentialEntryDone
    \/ LoginPostSubmit
    \/ LoginDetectMFA
    \/ GetMFACodeStep
    \/ HandleMFAGetCode
    \/ HandleMFAFillCode
    \/ HandleMFASubmitCode
    \/ PromptForMFAResume
    \/ HandleMFALandingDelay
    \/ WaitForLandingPagePoll
    \/ WaitForLandingPageTimeout
    \/ LoginFinalDelay
    \/ LoginFinalCheck
    \/ LoginCatch

\* The process goes on to its next call; between calls the session may
\* expire or the browser may be redirected.
NextCall ==
    /\ pc = "done"
    /\ pc' = "idle"
    /\ fn' = "none"
    /\ safe' = SafeIdle
    /\ ra' = RaIdle
    /\ page' \in Pages
    /\ touched' = {}
    /\ ret' = "none"
    /\ lg' = LgIdle
    /\ UNCHANGED <<headless, ncalls, mf, mail, dl, scan, cg>>

Next ==
    \/ SafeStep
    \/ RetryStep
    \/ CallSafe
    \/ ReturnSafe
    \/ CallRetryAction
    \/ ReturnRetryAction
    \/ CallLogin
    \/ CallEnsureLoggedIn
    \/ LoginStep
    \/ NextCall

Spec == Init /\ [][Next]_vars

\* one call of login or ensureLoggedIn
LoginNext ==
    \/ CallLogin
    \/ CallEnsureLoggedIn
    \/ SafeStep
    \/ LoginStep

\* every await of the program settles, except rl.question of promptForMFA,
\* which waits for the operator
SpecLive == Init /\ [][LoginNext]_vars /\ WF_vars(LoginNext /\ pc # "mfa_prompt")

\* ============================================================ mail search
\* Message bodies, senders and subjects are sequences of characters, so
\* that the regular expressions of the code are matched, not assumed.
Digits == {"0","1","2","3","4","5","6","7","8","9"}

\* \s of the regular expressions
isSpace(c) == c \in {" ", "\n"}

\* \w of the regular expressions
isWord(c) == c \in Digits \/ c = "_" \/ toLowerCaseChar(c) \in {LowerAlpha[i] : i \in 1..26}

\* [0-9]{6} at position i
digitsAt(s, i) == i >= 1 /\ i + 5 <= Len(s) /\ \A k \in 0..5 : s[i + k] \in Digits

\* the case-insensitive literal at position i
literalAt(s, i, lit) ==
    /\ i >= 1 /\ i + Len(lit) - 1 <= Len(s)
    /\ \A k \in 1..Len(lit) : toLowerCaseChar(s[i + k - 1]) = lit[k]

\* \s* from position i: the first position that holds no white space
RECURSIVE skipSpaces(_, _)
skipSpaces(s, i) == IF i <= Len(s) /\ isSpace(s[i]) THEN skipSpaces(s, i + 1) ELSE i

null == <<>>

Leftmost(S) == CHOOSE i \in S : \A j \in S : i <= j

\* /<lit>:?\s*([0-9]{6})/i : where the capture starts for a match at p
afterLiteral(s, p, lit) ==
    LET q == p + Len(lit)
        r == IF q <= Len(s) /\ s[q] = ":" THEN q + 1 ELSE q
    IN skipSpaces(s, r)

matchLiteralThenCode(s, lit) ==
    LET hits == {p \in 1..Len(s) : literalAt(s, p, lit) /\ digitsAt(s, afterLiteral(s, p, lit))}
    IN IF hits = {} THEN null
       ELSE LET c == afterLiteral(s, Leftmost(hits), lit) IN SubSeq(s, c, c + 5)

\* /code:\s*([0-9]{6})/i : the colon is part of the literal
matchCodeColon(s, lit) ==
    LET hits == {p \in 1..Len(s) :
                   literalAt(s, p, lit) /\ digitsAt(s, skipSpaces(s, p + Len(lit)))}
    IN IF hits = {} THEN null
       ELSE LET c == skipSpaces(s, Leftmost(hits) + Len(lit)) IN SubSeq(s, c, c + 5)

\* /([0-9]{6})\s*<lit>/i
matchCodeThenLiteral(s, lit) ==
    LET hits == {p \in 1..Len(s) :
                   digitsAt(s, p) /\ literalAt(s, skipSpaces(s, p + 6), lit)}
    IN IF hits = {} THEN null
       ELSE SubSeq(s, Leftmost(hits), Leftmost(hits) + 5)

\* /\b([0-9]{6})\b/
matchBareCode(s) ==
    LET hits == {p \in 1..Len(s) :
                   /\ digitsAt(s, p)
                   /\ (p = 1 \/ ~isWord(s[p - 1]))
                   /\ (p + 6 > Len(s) \/ ~isWord(s[p + 6]))}
    IN IF hits = {} THEN null
       ELSE SubSeq(s, Leftmost(hits), Leftmost(hits) + 5)


\* the six patterns of extractMFACode / extractMFACodeFromEmail, by number
patternMatch(k, s) ==
    CASE k = 1 -> matchLiteralThenCode(s, 
                    <<"v","e","r","i","f","i","c","a","t","i","o","n"," ","c","o","d","e"," ","i","s">>)
      [] k = 2 -> matchLiteralThenCode(s, 
                    <<"y","o","u","r"," ","c","o","d","e"," ","i","s">>)
      [] k = 3 -> matchLiteralThenCode(s, 
                    <<"s","e","c","u","r","i","t","y"," ","c","o","d","e">>)
      [] k = 4 -> matchCodeThenLiteral(s, 
                    <<"i","s"," ","y","o","u","r"," ","v","e","r","i","f","i","c","a","t","i","o","n"," ","c","o","d","e">>)
      [] k = 5 -> matchCodeColon(s, 
                    <<"c","o","d","e",":">>)
      [] k = 6 -> matchBareCode(s)

\* variant: the fallback pattern is tried first
patternsFallbackFirst == <<6, 1, 2, 3, 4, 5>>

\* const patterns = [ ... ] in source order
patterns == <<1, 2, 3, 4, 5, 6>>

\* for (const pattern of patterns) { match = body.match(pattern);
\*   if (match && match[1]) return match[1]; }  -- the position in the list
\* of the first pattern that matches, 0 when none does
firstMatching(s) ==
    LET hits == {i \in 1..Len(patterns) : patternMatch(patterns[i], s) # null}
    IN IF hits = {} THEN 0 ELSE Leftmost(hits)

\* the number, in source order, of the pattern whose capture is returned
patternUsed(s) == IF firstMatching(s) = 0 THEN 0 ELSE patterns[firstMatching(s)]

extractMFACode(emailBody) ==
    LET first == firstMatching(emailBody)
    IN IF first = 0 THEN null ELSE patternMatch(patterns[first], emailBody)

\* const content = text || html || ''   (an empty string is falsy)
extractMFACodeFromEmail(text, html) ==
    extractMFACode(IF text # <<>> THEN text ELSE html)

\* message bodies the extraction is applied to

Body ==
    [verification |-> <<"Y","o","u","r"," ","v","e","r","i","f","i","c","a","t","i","o","n"," ","c","o","d","e"," ","i","s",":"," ","4","8","2","9","1","3">>,
     your_upper |-> <<"Y","O","U","R"," ","C","O","D","E"," ","I","S"," ","1","1","1","2","2","2">>,
     security |-> <<"s","e","c","u","r","i","t","y"," ","c","o","d","e",":","3","3","3","4","4","4">>,
     code_first |-> <<"5","5","5","6","6","6"," ","i","s"," ","y","o","u","r"," ","v","e","r","i","f","i","c","a","t","i","o","n"," ","c","o","d","e">>,
     code_colon |-> <<"c","o","d","e",":"," ","7","7","7","8","8","8">>,
     bare |-> <<"r","e","f"," ","9","9","9","0","0","0"," ","o","k">>,
     two_codes |-> <<"i","d"," ","1","2","3","4","5","6"," ","c","o","d","e",":"," ","6","5","4","3","2","1">>,
     bare_then_your |-> <<"n","o"," ","1","3","5","7","9","0"," ","y","o","u","r"," ","c","o","d","e"," ","i","s",":"," ","9","7","5","3","1","0">>,
     glued_seven |-> <<"a","1","2","3","4","5","6","7">>,
     colon_seven |-> <<"c","o","d","e",":"," ","1","2","3","4","5","6","7">>,
     seven_first |-> <<"1","2","3","4","5","6","7"," ","i","s"," ","y","o","u","r"," ","v","e","r","i","f","i","c","a","t","i","o","n"," ","c","o","d","e">>,
     five_digits |-> <<"y","o","u","r"," ","c","o","d","e"," ","i","s"," ","1","2","3","4","5">>,
     newline |-> <<"c","o","d","e",":","\n","2","4","6","8","1","0">>,
     no_digits |-> <<"n","o"," ","c","o","d","e"," ","y","e","t">>,
     empty |-> <<>>]

Bodies == {Body[k] : k \in DOMAIN Body}

\* MFA_EMAIL_CONFIG.emailCriteria
sender == <<"n","o","r","e","p","l","y","@","h","h","a","e","x","c","h","a","n","g","e",".","c","o","m">>

\* a message as mailparser (text, html) and the mail API (body) present it
\* received at time t: a plain-text message with a code or an HTML message
\* without one
Messages(t) ==
    {m \in [received : {t}, from : {sender, <<"b","o","b","@","e","x","a","m","p","l","e",".","c","o","m">>}, subject : {<<"H","H","A","e","X","c","h","a","n","g","e"," ","c","o","d","e">>, <<"h","e","l","l","o">>},
            text : {Body.verification, <<>>}, html : {Body.no_digits, <<>>}] :
        (m.text = <<>>) # (m.html = <<>>)}

\* message.body?.content of the mail API
bodyContent(m) == IF m.html # <<>> THEN m.html ELSE m.text


\* the mail server files a new message (the result of an earlier search has
\* been consumed by then)
MailDeliver ==
    /\ mail.op \notin {"extract", "extractFromEmail"}
    /\ Len(mail.box) < MaxMessages
    /\ \E m \in Messages(mail.now) :
         mail' = [mail EXCEPT !.box = Append(mail.box, m),
                              !.op = "none", !.code = null, !.source = 0]
    /\ UNCHANGED <<pc, fn, headless, page, safe, ra, touched, ret, ncalls, lg, mf, dl, scan, cg>>

\* time passes
MailTick ==
    /\ mail.op \notin {"extract", "extractFromEmail"}
    /\ mail.now + TickSeconds <= MaxClock
    /\ mail' = [mail EXCEPT !.now = mail.now + TickSeconds,
                            !.op = "none", !.code = null, !.source = 0]
    /\ UNCHANGED <<pc, fn, headless, page, safe, ra, touched, ret, ncalls, lg, mf, dl, scan, cg>>

\* login: performCredentialEntry clicks the submit button, which makes the
\* server send the verification message; humanDelay(1000, 2000),
\* waitForStableUI and detectMFA follow before handleMFA starts the retrieval
MailSubmitCredentials ==
    /\ mail.op \notin {"extract", "extractFromEmail"}
    /\ mail.submitted = -1 /\ mail.startTime = -1
    /\ mail' = [mail EXCEPT !.submitted = mail.now,
                            !.op = "none", !.code = null, !.source = 0]
    /\ UNCHANGED <<pc, fn, headless, page, safe, ra, touched, ret, ncalls, lg, mf, dl, scan, cg>>

\* the challenge starts and the retrieval with it;
\* getMFACodeViaIMAP: const startTime = Date.now()
MailStartChallenge ==
    /\ mail.op \notin {"extract", "extractFromEmail"}
    /\ mail.startTime = -1
    /\ mail' = [mail EXCEPT !.startTime = mail.now,
                            !.op = "none", !.code = null, !.source = 0]
    /\ UNCHANGED <<pc, fn, headless, page, safe, ra, touched, ret, ncalls, lg, mf, dl, scan, cg>>

\* imap.search(searchCriteria, ...) and, when that fails, imap.search(['ALL'])
imapSearch(box, now, all) ==
    {i \in 1..Len(box) :
        \/ all
        \/ /\ box[i].received >= now - 5 * 60
           /\ \E k \in {<<"h","h","a","e","x","c","h","a","n","g","e">>,
                        <<"a","u","t","h","e","n","t","i","c","a","t","i","o","n"," ","c","o","d","e">>,
                        <<"v","e","r","i","f","i","c","a","t","i","o","n">>,
                        <<"c","o","d","e">>}
                : includes(toLowerCase(box[i].subject), k)}

\* processResults: if (startTime) { if (emailTimestamp < startTime) return; }
imapFresh(m, startTime) == ~(m.received < startTime)

\* processResults: isHHAEmail
isHHAEmail(m) ==
    \/ includes(toLowerCase(m.from), <<"h","h","a","e","x","c","h","a","n","g","e">>)
    \/ includes(toLowerCase(m.from), <<"n","o","r","e","p","l","y">>)
    \/ includes(toLowerCase(m.subject), <<"h","h","a","e","x","c","h","a","n","g","e">>)

\* messages whose parse callback assigns foundCode
imapFound(box, ids, startTime) ==
    {i \in ids : /\ imapFresh(box[i], startTime)
                 /\ isHHAEmail(box[i])
                 /\ extractMFACodeFromEmail(box[i].text, box[i].html) # null}

\* searchIMAPForMFACode with processResults: the parse callbacks finish in
\* any order and the last assignment to foundCode wins; a fetch error, or a
\* callback that has not finished 500 ms after 'end', resolves null
SearchIMAPForMFACode ==
    /\ mail.startTime # -1 /\ mail.op = "none"
    /\ \E all \in BOOLEAN :
         LET found == imapFound(mail.box, imapSearch(mail.box, mail.now, all), mail.startTime)
         IN \/ \E i \in found :
                 mail' = [mail EXCEPT
                            !.op = "imap", !.source = i,
                            !.code = extractMFACodeFromEmail(mail.box[i].text, mail.box[i].html)]
            \/ mail' = [mail EXCEPT !.op = "imap", !.source = 0, !.code = null]
    /\ UNCHANGED <<pc, fn, headless, page, safe, ra, touched, ret, ncalls, lg, mf, dl, scan, cg>>

\* ------------------------------------------- processResults, event by event
\* the callback given to simpleParser, as a function of foundCode
parseCallback(foundCode, m, startTime, err) ==
    IF err THEN foundCode
    ELSE IF ~imapFresh(m, startTime) THEN foundCode
    ELSE IF ~isHHAEmail(m) THEN foundCode
    ELSE LET code == extractMFACodeFromEmail(m.text, m.html) IN
         IF code # null THEN code ELSE foundCode

\* processResults is called with the result of a search: no message ids
\* return null at once, otherwise imap.fetch starts and the handlers are set
ProcessResultsStart ==
    /\ mail.startTime # -1 /\ mail.op = "none" /\ mail.pr.step = "idle"
    /\ \E all \in BOOLEAN :
         LET messageIds == imapSearch(mail.box, mail.now, all) IN
         mail' = IF messageIds = {}
                 THEN [mail EXCEPT !.pr.step = "done", !.pr.resolved = "empty",
                                   !.pr.value = null]
                 ELSE [mail EXCEPT !.pr.step = "fetching", !.pr.ids = messageIds]
    /\ UNCHANGED <<pc, fn, headless, page, safe, ra, touched, ret, ncalls, lg, mf, dl, scan, cg>>

\* the parser calls back for one of the fetched messages; this may be
\* before or after the promise is settled
ParseCallback ==
    /\ mail.pr.step \in {"fetching", "ended", "done"}
    /\ \E i \in mail.pr.ids \ mail.pr.parsed, err \in BOOLEAN :
         mail' = [mail EXCEPT
                    !.pr.parsed = mail.pr.parsed \cup {i},
                    !.pr.erred = IF err THEN mail.pr.erred \cup {i} ELSE mail.pr.erred,
                    !.pr.foundCode = parseCallback(mail.pr.foundCode, mail.box[i],
                                                   mail.startTime, err)]
    /\ UNCHANGED <<pc, fn, headless, page, safe, ra, touched, ret, ncalls, lg, mf, dl, scan, cg>>

\* fetch.once('error', ...): resolve(null)
FetchError ==
    /\ mail.pr.step = "fetching"
    /\ mail' = [mail EXCEPT !.pr.step = "done", !.pr.resolved = "error",
                            !.pr.value = null]
    /\ UNCHANGED <<pc, fn, headless, page, safe, ra, touched, ret, ncalls, lg, mf, dl, scan, cg>>

\* fetch.once('end', ...): every message has been handed to the parser;
\* setTimeout(() => resolve(foundCode), 500)
FetchEnd ==
    /\ mail.pr.step = "fetching"
    /\ mail' = [mail EXCEPT !.pr.step = "ended"]
    /\ UNCHANGED <<pc, fn, headless, page, safe, ra, touched, ret, ncalls, lg, mf, dl, scan, cg>>

\* the 500 ms timer fires: resolve(foundCode)
FetchTimerFires ==
    /\ mail.pr.step = "ended"
    /\ mail' = [mail EXCEPT !.pr.step = "done", !.pr.resolved = "timer",
                            !.pr.value = mail.pr.foundCode]
    /\ UNCHANGED <<pc, fn, headless, page, safe, ra, touched, ret, ncalls, lg, mf, dl, scan, cg>>

\* the request of searchOutlookForMFACode:
\* $filter=receivedDateTime ge <now - maxAge>, $search=<subjectKeywords>
outlookSearch(box, now) ==
    {i \in 1..Len(box) :
        /\ box[i].received >= now - maxAge
        /\ \E k \in {<<"v","e","r","i","f","i","c","a","t","i","o","n">>,
                        <<"c","o","d","e">>,
                        <<"l","o","g","i","n">>,
                        <<"m","f","a">>}
                : includes(toLowerCase(box[i].subject), k)}

\* the loop body: sender test, then extractMFACode(body)
outlookFound(box, ids) ==
    {i \in ids : /\ includes(toLowerCase(box[i].from), toLowerCase(sender))
                 /\ extractMFACode(bodyContent(box[i])) # null}

\* searchOutlookForMFACode: messages come newest first ($orderby
\* receivedDateTime DESC) and the first one that yields a code is returned
SearchOutlookForMFACode ==
    /\ mail.startTime # -1 /\ mail.op = "none"
    /\ LET found == outlookFound(mail.box, outlookSearch(mail.box, mail.now))
       IN IF found = {}
          THEN mail' = [mail EXCEPT !.op = "outlook", !.source = 0, !.code = null]
          ELSE \E i \in found :
                 /\ \A j \in found : mail.box[j].received <= mail.box[i].received
                 /\ mail' = [mail EXCEPT !.op = "outlook", !.source = i,
                                         !.code = extractMFACode(bodyContent(mail.box[i]))]
    /\ UNCHANGED <<pc, fn, headless, page, safe, ra, touched, ret, ncalls, lg, mf, dl, scan, cg>>

\* extractMFACode applied to a body, as the first thing the process does
ExtractMFACode ==
    /\ mail.box = <<>> /\ mail.startTime = -1
    /\ \E b \in Bodies :
         mail' = [mail EXCEPT !.op = "extract", !.body = b, !.source = 0,
                              !.code = extractMFACode(b), !.matched = patternUsed(b)]
    /\ UNCHANGED <<pc, fn, headless, page, safe, ra, touched, ret, ncalls, lg, mf, dl, scan, cg>>

\* extractMFACodeFromEmail applied to the text and html parts of a message
ExtractMFACodeFromEmail ==
    /\ mail.box = <<>> /\ mail.startTime = -1
    /\ \E text \in {Body.verification, Body.bare, <<>>}, html \in {Body.two_codes, Body.glued_seven, <<>>} :
         LET content == IF text # <<>> THEN text ELSE html IN
         mail' = [mail EXCEPT !.op = "extractFromEmail", !.body = content, !.source = 0,
                              !.code = extractMFACodeFromEmail(text, html),
                              !.matched = patternUsed(content)]
    /\ UNCHANGED <<pc, fn, headless, page, safe, ra, touched, ret, ncalls, lg, mf, dl, scan, cg>>

MailInit ==
    /\ pc = "idle"
    /\ fn = "none"
    /\ headless = FALSE
    /\ page = [url |-> Url.login, loginForm |-> TRUE, landedEl |-> FALSE, mfaEl |-> FALSE]
    /\ safe = SafeIdle
    /\ ra = RaIdle
    /\ touched = {}
    /\ ret = "none"
    /\ ncalls = 0
    /\ lg = LgIdle
    /\ mf = MfIdle
    /\ mail = MailIdle
    /\ dl = DlIdle
    /\ scan = ScanIdle
    /\ cg = CgIdle

MailNext ==
    \/ MailDeliver
    \/ MailTick
    \/ MailSubmitCredentials
    \/ MailStartChallenge
    \/ SearchIMAPForMFACode
    \/ SearchOutlookForMFACode
    \/ ExtractMFACode
    \/ ExtractMFACodeFromEmail

SpecMail == MailInit /\ [][MailNext]_vars

\* one call of processResults on a mailbox of one or two messages, the
\* retrieval having started before, with or after them
FetchInit ==
    /\ pc = "idle"
    /\ fn = "none"
    /\ headless = FALSE
    /\ page = [url |-> Url.login, loginForm |-> TRUE, landedEl |-> FALSE, mfaEl |-> FALSE]
    /\ safe = SafeIdle
    /\ ra = RaIdle
    /\ touched = {}
    /\ ret = "none"
    /\ ncalls = 0
    /\ lg = LgIdle
    /\ mf = MfIdle
    /\ dl = DlIdle
    /\ scan = ScanIdle
    /\ cg = CgIdle
    /\ \E m1 \in Messages(0), m2 \in Messages(TickSeconds), n \in 1..2,
          startTime \in {0, TickSeconds} :
         mail = [MailIdle EXCEPT !.box = SubSeq(<<m1, m2>>, 1, n),
                                 !.now = TickSeconds, !.submitted = 0,
                                 !.startTime = startTime]

FetchNext ==
    \/ ProcessResultsStart
    \/ ParseCallback
    \/ FetchError
    \/ FetchEnd
    \/ FetchTimerFires

SpecFetch == FetchInit /\ [][FetchNext]_vars

\* ============================================================== downloads


\* fs.readdirSync(downloadPath): the names in the order the file system
\* yields them
Listings(dir) ==
    {l \in [1..Cardinality({n \in Names : dir[n] # Absent}) -> {n \in Names : dir[n] # Absent}] :
        \A i, j \in DOMAIN l : (l[i] = l[j]) => (i = j)}

\* files.find(file => expectedFilenamePattern.test(file))
findMatching(listing) ==
    LET hits == {i \in DOMAIN listing : listing[i] \in expectedFilenamePattern}
    IN IF hits = {} THEN "none" ELSE listing[Leftmost(hits)]

\* checkExistingDownload: the first matching file, if its size is > 0
checkExistingDownload(dir, listing) ==
    LET matchingFile == findMatching(listing)
    IN IF matchingFile # "none" /\ dir[matchingFile] > 0 THEN matchingFile ELSE "none"

\* verifyDownload: the name matches and the size is not below the minimum;
\* a missing file makes statSync throw, which returns false
verifyDownload(dir, name, minSize) ==
    /\ name \in expectedFilenamePattern
    /\ dir[name] # Absent
    /\ ~(dir[name] < minSize)

\* values of --from and --to: whether /^\d{4}-\d{2}-\d{2}$/ matches the text,
\* whether new Date(text) is an Invalid Date, and its time value if not
argvDate ==
    [jan01 |-> [matches |-> TRUE, isNaN |-> FALSE, time |-> 1],
     jan31 |-> [matches |-> TRUE, isNaN |-> FALSE, time |-> 31],
     month13 |-> [matches |-> TRUE, isNaN |-> TRUE, time |-> 0],
     slashed |-> [matches |-> FALSE, isNaN |-> FALSE, time |-> 1]]

\* validateDate: the format test, then date instanceof Date && !isNaN(date)
validateDate(dateStr) ==
    IF ~argvDate[dateStr].matches THEN FALSE
    ELSE ~argvDate[dateStr].isNaN

\* the try block of main up to the launch of the browser: the first check
\* that fails throws ("none" when they all pass)
mainInputError(argv) ==
    IF ~validateDate(argv.from) THEN "Invalid from date"
    ELSE IF ~validateDate(argv.to) THEN "Invalid to date"
    ELSE IF argvDate[argv.from].time > argvDate[argv.to].time
         THEN "From date must be before or equal to To date"
    ELSE IF ~argv.credentials THEN "Missing credentials"
    ELSE "none"

\* main of the runner: the inputs are validated, the browser is launched and
\* login is performed before runReport is called; a failed login throws
\* 'Login failed'
MainLaunch ==
    /\ dl.step = "idle"
    /\ IF mainInputError(dl.argv) # "none"
       THEN dl' = [dl EXCEPT !.step = "done", !.result = "throw",
                             !.fail = mainInputError(dl.argv)]
       ELSE \E range \in dl.asks, force \in BOOLEAN, loginSuccess \in BOOLEAN :
              dl' = IF loginSuccess
                    THEN [dl EXCEPT !.step = "call", !.launched = TRUE, !.range = range,
                                    !.force = force]
                    ELSE [dl EXCEPT !.step = "done", !.launched = TRUE, !.range = range,
                                    !.force = force, !.result = "throw",
                                    !.fail = "Login failed"]
    /\ UNCHANGED <<pc, fn, headless, page, safe, ra, touched, ret, ncalls, lg, mf, mail, scan, cg>>

\* validateReportDefinition: every required field is there
validateReportDefinition(reportDef) ==
    \A field \in {"start_url", "menu_steps", "date_range_selectors", "download_trigger",
                  "expected_filename_regex"} : field \notin reportDef.missing

\* runReport is called: an invalid report definition throws
CallRunReport ==
    /\ dl.step = "call"
    /\ dl' = IF validateReportDefinition(dl.def)
             THEN [dl EXCEPT !.step = "run_check"]
             ELSE [dl EXCEPT !.step = "done", !.result = "throw",
                             !.fail = "Invalid report definition"]
    /\ UNCHANGED <<pc, fn, headless, page, safe, ra, touched, ret, ncalls, lg, mf, mail, scan, cg>>

\* runReport: if (!force) { existingFile = checkExistingDownload(...);
\*   if (existingFile) return existingFile; }
RunReportCheckExisting ==
    /\ dl.step = "run_check"
    /\ IF dl.force
       THEN dl' = [dl EXCEPT !.step = "exec"]
       ELSE \E listing \in Listings(dl.dir) :
              LET existingFile == checkExistingDownload(dl.dir, listing) IN
              dl' = IF existingFile # "none"
                    THEN [dl EXCEPT !.step = "done", !.checked = TRUE,
                                    !.existing = existingFile,
                                    !.result = "path", !.path = existingFile]
                    ELSE [dl EXCEPT !.step = "exec", !.checked = TRUE]
    /\ UNCHANGED <<pc, fn, headless, page, safe, ra, touched, ret, ncalls, lg, mf, mail, scan, cg>>

\* executeReportDownload, steps 1 to 5 (login, navigation, menu, date range,
\* run button) as one step: they either all succeed or one of them throws
ExecuteReportDownloadPrepare ==
    /\ dl.step = "exec"
    /\ \E ok \in BOOLEAN :
         dl' = IF ok THEN [dl EXCEPT !.step = "retry_loop", !.attempt = 0, !.pipeline = TRUE]
               ELSE [dl EXCEPT !.step = "exec_catch", !.pipeline = TRUE,
                               !.fail = "steps 1 to 5"]
    /\ UNCHANGED <<pc, fn, headless, page, safe, ra, touched, ret, ncalls, lg, mf, mail, scan, cg>>

\* executeReportDownload, steps 1 to 6: the stage that starts after the
\* stages started so far, given what the definition configures
nextStage(reportDef, stages) ==
    LET last == IF stages = <<>> THEN "none" ELSE stages[Len(stages)]
        afterMenu == IF "date_range_selectors" \notin reportDef.missing THEN "dates"
                     ELSE IF reportDef.run_button_selector THEN "run" ELSE "trigger"
    IN CASE last = "none" -> "auth"
         [] last = "auth" -> "goto"
         [] last = "goto" -> IF reportDef.menu_steps > 0 THEN "menu" ELSE afterMenu
         [] last = "menu" -> IF Len(SelectSeq(stages, LAMBDA x : x = "menu")) < reportDef.menu_steps
                             THEN "menu"
                             ELSE afterMenu
         [] last = "dates" -> IF reportDef.run_button_selector THEN "run" ELSE "trigger"
         [] OTHER -> "trigger"

\* what a stage can meet.  auth: ensureLoggedIn returns true or false, or
\* throws; goto: retryAction around page.goto and waitForStableUI returns or
\* throws after its attempts; menu: one step of navigateMenuSequence, whose
\* retryAction returns, returns although safeClick gave false, or throws
\* (then navigateMenuSequence returns false); dates: fillDateRange returns
\* true or false; run: as a menu step, for the run button
stageOutcomes(stage) ==
    CASE stage = "auth" -> {"ok", "false", "throw"}
      [] stage = "goto" -> {"ok", "throw"}
      [] stage = "menu" -> {"ok", "click_false", "throw"}
      [] stage = "dates" -> {"ok", "false"}
      [] stage = "run" -> {"ok", "click_false", "throw"}
      [] OTHER -> {"ok"}

\* whether the outcome of a stage makes executeReportDownload throw: the
\* boolean safeClick returns inside the retryAction closure is dropped
stageFails(outcome) == outcome \notin {"ok", "click_false"}

\* executeReportDownload starts its next stage and the stage ends: step 1
\* ensureLoggedIn, step 2 start URL, step 3 menu steps, step 4 date range,
\* step 5 run button, then step 6, the retryAction around the trigger
ExecuteReportDownloadStage ==
    /\ dl.step = "exec"
    /\ LET stage == nextStage(dl.def, dl.stages)
           started == [dl EXCEPT !.stages = Append(dl.stages, stage), !.pipeline = TRUE]
       IN IF stage = "trigger"
          THEN dl' = [started EXCEPT !.step = "retry_loop", !.attempt = 0]
          ELSE \E outcome \in stageOutcomes(stage) :
                 dl' = IF stageFails(outcome)
                       THEN [started EXCEPT !.step = "exec_catch",
                                            !.fail = stage]
                       ELSE IF outcome = "click_false"
                       THEN [started EXCEPT !.failedClicks =
                                                dl.failedClicks \cup {Len(started.stages)}]
                       ELSE started
    /\ UNCHANGED <<pc, fn, headless, page, safe, ra, touched, ret, ncalls, lg, mf, mail, scan, cg>>

\* step 6: retryAction(..., { maxRetries: 1 }) around triggerAndWaitForDownload
DownloadRetryLoop ==
    /\ dl.step = "retry_loop"
    /\ dl' = IF retryLoopCond(dl.attempt, downloadMaxRetries)
             THEN [dl EXCEPT !.step = "trigger", !.k = 1, !.listening = FALSE,
                             !.event = "none", !.target = "none", !.trigger = "running"]
             ELSE [dl EXCEPT !.step = "exec_catch"]
    /\ UNCHANGED <<pc, fn, headless, page, safe, ra, touched, ret, ncalls, lg, mf, mail, scan, cg>>

\* retryAction's catch block: remember the error, screenshot, next attempt
DownloadRetryCatch(d) == [d EXCEPT !.step = "retry_loop", !.attempt = d.attempt + 1]

\* variant: the click is issued before the listener is armed
triggerOrderClickFirst == <<"click", "arm">>

\* triggerAndWaitForDownload: page.waitForEvent('download') is called first,
\* page.click(trigger_selector) second
triggerOrder == <<"arm", "click">>

\* const downloadPromise = page.waitForEvent('download', { timeout: 60000 })
TriggerArm ==
    /\ dl.step = "trigger" /\ dl.k \in 1..2 /\ triggerOrder[dl.k] = "arm"
    /\ dl' = [dl EXCEPT !.listening = TRUE, !.k = dl.k + 1]
    /\ UNCHANGED <<pc, fn, headless, page, safe, ra, touched, ret, ncalls, lg, mf, mail, scan, cg>>

\* await page.click(downloadConfig.trigger_selector): the click may fail,
\* and a click that lands makes the site start a download or not
TriggerClick ==
    /\ dl.step = "trigger" /\ dl.k \in 1..2 /\ triggerOrder[dl.k] = "click"
    /\ \E out \in {"throw", "download", "nothing"} :
         dl' = IF out = "throw"
               THEN DownloadRetryCatch([dl EXCEPT !.trigger = "click_failed"])
               ELSE [dl EXCEPT !.clicks = dl.clicks + 1, !.k = dl.k + 1,
                               !.event = IF out = "download" THEN "pending" ELSE "none"]
    /\ UNCHANGED <<pc, fn, headless, page, safe, ra, touched, ret, ncalls, lg, mf, mail, scan, cg>>

\* the browser emits the download event, at any time after the click
DownloadEventFires ==
    /\ dl.event = "pending"
    /\ dl' = [dl EXCEPT !.event = IF dl.listening THEN "captured" ELSE "missed"]
    /\ UNCHANGED <<pc, fn, headless, page, safe, ra, touched, ret, ncalls, lg, mf, mail, scan, cg>>

\* download = await downloadPromise: the event the listener captured, or the
\* timeout error, which is rethrown
TriggerAwait ==
    /\ dl.step = "trigger" /\ dl.k = 3
    /\ dl.event # "pending"
    /\ dl' = IF dl.event = "captured"
             THEN [dl EXCEPT !.step = "save"]
             ELSE DownloadRetryCatch([dl EXCEPT !.trigger = "timeout"])
    /\ UNCHANGED <<pc, fn, headless, page, safe, ra, touched, ret, ncalls, lg, mf, mail, scan, cg>>

\* targetPath = join(downloadPath, download.suggestedFilename());
\* await download.saveAs(targetPath): writes the file, or fails
TriggerSave ==
    /\ dl.step = "save"
    /\ \E name \in Names, size \in Sizes, ok \in BOOLEAN :
         dl' = IF ok
               THEN [dl EXCEPT !.step = "verify", !.target = name,
                               !.dir = [dl.dir EXCEPT ![name] = size],
                               !.made = [name |-> name, range |-> dl.range]]
               ELSE DownloadRetryCatch([dl EXCEPT !.trigger = "save_failed"])
    /\ UNCHANGED <<pc, fn, headless, page, safe, ra, touched, ret, ncalls, lg, mf, mail, scan, cg>>

\* isValid = await verifyDownload(targetPath, pattern, 100, logger);
\* if (!isValid) throw new Error('Downloaded file failed verification');
\* return targetPath  -- which retryAction returns to executeReportDownload
TriggerVerify ==
    /\ dl.step = "verify"
    /\ dl' = IF verifyDownload(dl.dir, dl.target, minSizeBytes)
             THEN [dl EXCEPT !.step = "validate", !.trigger = "returned"]
             ELSE DownloadRetryCatch([dl EXCEPT !.trigger = "failed_verification"])
    /\ UNCHANGED <<pc, fn, headless, page, safe, ra, touched, ret, ncalls, lg, mf, mail, scan, cg>>

\* variant: a validation that finds something wrong throws
afterValidationStrict(d, outcome) ==
    IF outcome = "ok" THEN [d EXCEPT !.step = "done", !.result = "path", !.path = d.target]
    ELSE [d EXCEPT !.step = "exec_catch", !.fail = "validate"]

\* the call of validateDownloadedFile is awaited and its boolean dropped;
\* executeReportDownload returns downloadedFile
afterValidation(d, outcome) ==
    [d EXCEPT !.step = "done", !.result = "path", !.path = d.target]

\* step 7: if (reportDef.validation) validateDownloadedFile(...), which warns
\* about a missing column or too few rows and returns true, or catches the
\* error of reading the file and returns false
ValidateDownloadedFile ==
    /\ dl.step = "validate"
    /\ IF dl.def.validation
       THEN \E outcome \in {"ok", "missing_columns", "too_few_rows", "read_error"} :
              dl' = afterValidation([dl EXCEPT !.stages = Append(dl.stages, "validate"),
                                               !.validation = outcome], outcome)
       ELSE dl' = afterValidation(dl, "ok")
    /\ UNCHANGED <<pc, fn, headless, page, safe, ra, touched, ret, ncalls, lg, mf, mail, scan, cg>>

\* executeReportDownload's catch block: screenshot, throw error
ExecuteReportDownloadCatch ==
    /\ dl.step = "exec_catch"
    /\ dl' = [dl EXCEPT !.step = "done", !.result = "throw",
                        !.fail = IF dl.fail = "none" THEN "trigger" ELSE dl.fail]
    /\ UNCHANGED <<pc, fn, headless, page, safe, ra, touched, ret, ncalls, lg, mf, mail, scan, cg>>

\* the caller starts over; the directory stays as it is
DownloadNextRun ==
    /\ dl.step = "done"
    /\ ncalls < MaxCalls
    /\ ncalls' = ncalls + 1
    /\ dl' = [DlIdle EXCEPT !.dir = dl.dir, !.def = dl.def, !.asks = dl.asks,
                            !.made = dl.made,
                            !.prev = IF dl.result = "path" /\ dl.pipeline /\ ~dl.force
                                     THEN dl.range ELSE "none"]
    /\ UNCHANGED <<pc, fn, headless, page, safe, ra, touched, ret, lg, mf, mail, scan, cg>>

DownloadInit ==
    /\ pc = "idle"
    /\ fn = "none"
    /\ headless = FALSE
    /\ page = [url |-> Url.home, loginForm |-> FALSE, landedEl |-> TRUE, mfaEl |-> FALSE]
    /\ safe = SafeIdle
    /\ ra = RaIdle
    /\ touched = {}
    /\ ret = "none"
    /\ ncalls = 0
    /\ lg = LgIdle
    /\ mf = MfIdle
    /\ mail = MailIdle
    /\ dl \in {[DlIdle EXCEPT !.dir = d] : d \in [Names -> Sizes \cup {Absent}]}
    /\ scan = ScanIdle
    /\ cg = CgIdle

\* a run of any report definition, on a download directory that is empty
\* or holds one file of an earlier run
ReportInit ==
    /\ pc = "idle"
    /\ fn = "none"
    /\ headless = FALSE
    /\ page = [url |-> Url.home, loginForm |-> FALSE, landedEl |-> TRUE, mfaEl |-> FALSE]
    /\ safe = SafeIdle
    /\ ra = RaIdle
    /\ touched = {}
    /\ ret = "none"
    /\ ncalls = 0
    /\ lg = LgIdle
    /\ mf = MfIdle
    /\ mail = MailIdle
    /\ scan = ScanIdle
    /\ cg = CgIdle
    /\ \E missing \in SUBSET {"start_url", "menu_steps", "date_range_selectors",
                               "download_trigger", "expected_filename_regex"},
          menu_steps \in 0..MaxSteps, run_button_selector \in BOOLEAN,
          validation \in BOOLEAN :
       \E size \in {Absent, 500}, from \in DOMAIN argvDate, to \in DOMAIN argvDate,
          credentials \in BOOLEAN :
         dl = [DlIdle EXCEPT !.dir["report_a.csv"] = size, !.asks = {"jan", "feb"},
                             !.def = [missing |-> missing, menu_steps |-> menu_steps,
                                      run_button_selector |-> run_button_selector,
                                      validation |-> validation],
                             !.argv = [from |-> from, to |-> to,
                                       credentials |-> credentials]]

DownloadNext ==
    \/ MainLaunch
    \/ CallRunReport
    \/ RunReportCheckExisting
    \/ ExecuteReportDownloadPrepare
    \/ DownloadRetryLoop
    \/ TriggerArm
    \/ TriggerClick
    \/ DownloadEventFires
    \/ TriggerAwait
    \/ TriggerSave
    \/ TriggerVerify
    \/ ValidateDownloadedFile
    \/ ExecuteReportDownloadCatch
    \/ DownloadNextRun

SpecDownload == DownloadInit /\ [][DownloadNext]_vars

\* runs that follow one another on one download directory, empty at first,
\* for any of the date ranges
RerunInit ==
    /\ pc = "idle"
    /\ fn = "none"
    /\ headless = FALSE
    /\ page = [url |-> Url.home, loginForm |-> FALSE, landedEl |-> TRUE, mfaEl |-> FALSE]
    /\ safe = SafeIdle
    /\ ra = RaIdle
    /\ touched = {}
    /\ ret = "none"
    /\ ncalls = 0
    /\ lg = LgIdle
    /\ mf = MfIdle
    /\ mail = MailIdle
    /\ scan = ScanIdle
    /\ cg = CgIdle
    /\ dl = [DlIdle EXCEPT !.asks = {"jan", "feb"}]

SpecRerun == RerunInit /\ [][DownloadNext]_vars

\* step 6 as one step: the retryAction around triggerAndWaitForDownload
\* returns the path of a verified file, or throws after its attempts
TriggerAndWaitForDownloadEnds ==
    /\ dl.step = "retry_loop"
    /\ \E name \in expectedFilenamePattern, size \in {z \in Sizes : z >= minSizeBytes},
          ok \in BOOLEAN :
         dl' = IF ok
               THEN [dl EXCEPT !.step = "validate", !.target = name,
                               !.trigger = "returned",
                               !.dir = [dl.dir EXCEPT ![name] = size],
                               !.made = [name |-> name, range |-> dl.range]]
               ELSE [dl EXCEPT !.step = "exec_catch"]
    /\ UNCHANGED <<pc, fn, headless, page, safe, ra, touched, ret, ncalls, lg, mf, mail, scan, cg>>

\* variant: the catch block leaves exitCode as it was initialised
exitCodeKept(result) == 0

\* let exitCode = 0; ... catch (error) { ... exitCode = 1; }
exitCode(result) == IF result = "throw" THEN 1 ELSE 0

\* the end of main: the lines after runReport returned or the lines of the
\* catch block, then finally (the browser is closed) and
\* process.exit(exitCode)
MainExit ==
    /\ dl.step = "done"
    /\ dl' = [dl EXCEPT !.step = "exited",
                        !.exit = exitCode(dl.result),
                        !.out = IF dl.result = "throw"
                                THEN <<"EXECUTION FAILED", "Error">>
                                ELSE <<"SUCCESS!", "Downloaded file">>]
    /\ UNCHANGED <<pc, fn, headless, page, safe, ra, touched, ret, ncalls, lg, mf, mail, scan, cg>>

\* one run of the runner, stage by stage
ReportNext ==
    \/ MainLaunch
    \/ CallRunReport
    \/ RunReportCheckExisting
    \/ ExecuteReportDownloadStage
    \/ TriggerAndWaitForDownloadEnds
    \/ ValidateDownloadedFile
    \/ ExecuteReportDownloadCatch
    \/ MainExit

SpecReport == ReportInit /\ [][ReportNext]_vars

\* ============================================================ dashboard jobs
\* new Date().toISOString().replace(/[:.]/g, '-') at time now: one text for
\* each millisecond. The route computes it for the job and the child's main
\* computes it again for itself: the arguments of the spawn carry the report
\* and the dates only
sessionIdAt(now) == <<"session", now>>

\* POST /api/reports/run: a missing field or a date that does not match
\* YYYY-MM-DD answers 400; otherwise the job is created with its own
\* sessionId and runReportJob(job) sets it running and spawns the child
PostReportsRun ==
    /\ dl.job.step = "idle"
    /\ \E reportId \in {"none"} \cup expectedFilenamePattern, fromDate \in DOMAIN argvDate :
         dl' = IF reportId = "none" \/ ~argvDate[fromDate].matches
                  \/ ~argvDate[dl.job.toDate].matches
               THEN [dl EXCEPT !.job.step = "rejected", !.job.response = "400"]
               ELSE [dl EXCEPT !.job.step = "spawned", !.job.reportId = reportId,
                               !.job.fromDate = fromDate,
                               !.job.sessionId = sessionIdAt(dl.job.now),
                               !.job.status = "running"]
    /\ UNCHANGED <<pc, fn, headless, page, safe, ra, touched, ret, ncalls, lg, mf, mail, scan, cg>>

\* time passes while the child process starts
JobClockTick ==
    /\ dl.job.step = "spawned"
    /\ dl.job.now < MaxJobTicks
    /\ dl' = [dl EXCEPT !.job.now = dl.job.now + 1]
    /\ UNCHANGED <<pc, fn, headless, page, safe, ra, touched, ret, ncalls, lg, mf, mail, scan, cg>>

\* the child's main up to setupDownloadDirectory(sessionId); an input error
\* is thrown before the directory is made
ChildMainStart ==
    /\ dl.job.step = "spawned"
    /\ \E credentials \in BOOLEAN :
         LET id == sessionIdAt(dl.job.now)
             error == mainInputError([from |-> dl.job.fromDate, to |-> dl.job.toDate,
                                      credentials |-> credentials])
         IN dl' = IF error # "none"
                  THEN [dl EXCEPT !.job.step = "closing", !.job.childSessionId = id,
                                  !.job.code = exitCode("throw")]
                  ELSE [dl EXCEPT !.job.step = "child", !.job.childSessionId = id]
    /\ UNCHANGED <<pc, fn, headless, page, safe, ra, touched, ret, ncalls, lg, mf, mail, scan, cg>>

\* the rest of the child's main: login and runReport, which saves the file
\* in the child's download directory, then the 'Downloaded file: <path>'
\* line, which the stdout handler of runReportJob matches if it comes in one
\* chunk
ChildRunReport ==
    /\ dl.job.step = "child"
    /\ \E result \in {"path", "throw"}, matched \in BOOLEAN :
         dl' = IF result = "throw"
               THEN [dl EXCEPT !.job.step = "closing", !.job.code = exitCode(result)]
               ELSE LET file == [dir |-> dl.job.childSessionId, name |-> dl.job.reportId]
                    IN [dl EXCEPT !.job.step = "closing", !.job.code = exitCode(result),
                                  !.job.files = dl.job.files \cup {file},
                                  !.job.matched = matched,
                                  !.job.downloadedFile = IF matched THEN file ELSE @]
    /\ UNCHANGED <<pc, fn, headless, page, safe, ra, touched, ret, ncalls, lg, mf, mail, scan, cg>>

\* child.on('close'): code 0 completes the job and, without a matched line,
\* takes the first file of downloads/<job.sessionId>; another code fails it
ChildClose ==
    /\ dl.job.step = "closing"
    /\ IF dl.job.code = 0
       THEN LET files == {f \in dl.job.files : f.dir = dl.job.sessionId} IN
            IF dl.job.downloadedFile.name = "none" /\ files # {}
            THEN \E f \in files :
                   dl' = [dl EXCEPT !.job.step = "closed", !.job.status = "completed",
                                    !.job.downloadedFile = f]
            ELSE dl' = [dl EXCEPT !.job.step = "closed", !.job.status = "completed"]
       ELSE dl' = [dl EXCEPT !.job.step = "closed", !.job.status = "failed"]
    /\ UNCHANGED <<pc, fn, headless, page, safe, ra, touched, ret, ncalls, lg, mf, mail, scan, cg>>

\* renderJobCard shows the download button when job.downloadedFile is set;
\* downloadFile(job.sessionId, getFilename(job.downloadedFile)) requests
\* /api/downloads/<sessionId>/<filename>, which answers 404 unless
\* downloads/<sessionId>/<filename> exists
DownloadFromJobCard ==
    /\ dl.job.step = "closed"
    /\ dl.job.downloadedFile.name # "none"
    /\ LET filePath == [dir |-> dl.job.sessionId, name |-> dl.job.downloadedFile.name]
       IN dl' = [dl EXCEPT !.job.step = "served",
                           !.job.response = IF filePath \in dl.job.files THEN "200"
                                            ELSE "404"]
    /\ UNCHANGED <<pc, fn, headless, page, safe, ra, touched, ret, ncalls, lg, mf, mail, scan, cg>>

\* a job posted at any time of the clock
JobInit ==
    /\ pc = "idle"
    /\ fn = "none"
    /\ headless = FALSE
    /\ page = [url |-> Url.home, loginForm |-> FALSE, landedEl |-> TRUE, mfaEl |-> FALSE]
    /\ safe = SafeIdle
    /\ ra = RaIdle
    /\ touched = {}
    /\ ret = "none"
    /\ ncalls = 0
    /\ lg = LgIdle
    /\ mf = MfIdle
    /\ mail = MailIdle
    /\ scan = ScanIdle
    /\ cg = CgIdle
    /\ \E now \in 0..MaxJobTicks, toDate \in DOMAIN argvDate :
         dl = [DlIdle EXCEPT !.job.now = now, !.job.toDate = toDate]

JobNext ==
    \/ PostReportsRun
    \/ JobClockTick
    \/ ChildMainStart
    \/ ChildRunReport
    \/ ChildClose
    \/ DownloadFromJobCard

SpecJob == JobInit /\ [][JobNext]_vars

\* ========================================================== directory scans

\* file names a download directory may list, character by character
File ==
    [csv |-> <<"r", ".", "c", "s", "v">>,
     crdownload |-> <<"r", ".", "c", "s", "v", ".", "c", "r", "d", "o", "w", "n", "l", "o", "a", "d">>,
     part |-> <<"r", ".", "c", "s", "v", ".", "p", "a", "r", "t">>,
     tmp |-> <<"r", ".", "t", "m", "p">>,
     txt |-> <<"n", ".", "t", "x", "t">>]

\* file.endsWith(suffix)
endsWith(file, suffix) ==
    /\ Len(suffix) <= Len(file)
    /\ SubSeq(file, Len(file) - Len(suffix) + 1, Len(file)) = suffix

\* the negation of the filter of waitForDownload:
\* file.endsWith('.crdownload') || file.endsWith('.tmp') || file.endsWith('.part')
isPartial(file) ==
    \/ endsWith(file, <<".", "c", "r", "d", "o", "w", "n", "l", "o", "a", "d">>)
    \/ endsWith(file, <<".", "t", "m", "p">>)
    \/ endsWith(file, <<".", "p", "a", "r", "t">>)

\* expectedFilenamePattern.test(file) for /lit/ and /lit$/
test(pattern, file) ==
    \E i \in 1..(Len(file) - Len(pattern.lit) + 1) :
        /\ SubSeq(file, i, i + Len(pattern.lit) - 1) = pattern.lit
        /\ pattern.anchored => (i + Len(pattern.lit) - 1 = Len(file))

\* the directory listings and patterns a scan starts from: up to MaxFiles
\* distinct names, each empty or not; patterns such as /\.csv$/, /\.csv/, /r/
ScanInit ==
    /\ pc = "idle"
    /\ fn = "none"
    /\ headless = FALSE
    /\ page = [url |-> Url.home, loginForm |-> FALSE, landedEl |-> TRUE, mfaEl |-> FALSE]
    /\ safe = SafeIdle
    /\ ra = RaIdle
    /\ touched = {}
    /\ ret = "none"
    /\ ncalls = 0
    /\ lg = LgIdle
    /\ mf = MfIdle
    /\ mail = MailIdle
    /\ dl = DlIdle
    /\ cg = CgIdle
    /\ \E n \in 0..MaxFiles :
       \E l \in [1..n -> [name : {File[f] : f \in DOMAIN File}, size : {0, 500}]] :
       \E lit \in {<<".", "c", "s", "v">>, <<"r">>, <<".", "t", "m", "p">>},
          anchored \in BOOLEAN :
         /\ \A i, j \in 1..n : (l[i].name = l[j].name) => (i = j)
         /\ scan = [ScanIdle EXCEPT !.files = l,
                                    !.pattern = [lit |-> lit, anchored |-> anchored]]

\* one iteration of waitForDownload's loop: list the directory, drop the
\* partial downloads, return the first remaining file that matches the
\* pattern and is not empty; otherwise humanDelay and poll again
WaitForDownloadPoll ==
    /\ scan.op \in {"none", "waitForDownload"}
    /\ scan.outcome = "none"
    /\ scan.polls < MaxPolls
    /\ LET completeFiles == SelectSeq(scan.files, LAMBDA f : ~isPartial(f.name))
           hits == {i \in DOMAIN completeFiles :
                       test(scan.pattern, completeFiles[i].name) /\ completeFiles[i].size > 0}
       IN scan' = IF hits # {}
                  THEN [scan EXCEPT !.op = "waitForDownload", !.outcome = "path",
                                    !.found = completeFiles[Leftmost(hits)].name]
                  ELSE [scan EXCEPT !.op = "waitForDownload", !.polls = scan.polls + 1]
    /\ UNCHANGED <<pc, fn, headless, page, safe, ra, touched, ret, ncalls, lg, mf, mail, dl, cg>>

\* Date.now() - startTime reached timeoutMs: throw new Error('Download timeout ...')
WaitForDownloadTimeout ==
    /\ scan.op = "waitForDownload"
    /\ scan.outcome = "none"
    /\ scan.polls >= 1
    /\ scan' = [scan EXCEPT !.outcome = "throw"]
    /\ UNCHANGED <<pc, fn, headless, page, safe, ra, touched, ret, ncalls, lg, mf, mail, dl, cg>>

\* between two polls the browser finishes a download: the partial file gets
\* its final name and its content
DownloadCompletes ==
    /\ scan.op = "waitForDownload"
    /\ scan.outcome = "none"
    /\ \E i \in DOMAIN scan.files :
         /\ scan.files[i].name = File.crdownload
         /\ \A j \in DOMAIN scan.files : scan.files[j].name # File.csv
         /\ scan' = [scan EXCEPT !.files[i] = [name |-> File.csv, size |-> 500]]
    /\ UNCHANGED <<pc, fn, headless, page, safe, ra, touched, ret, ncalls, lg, mf, mail, dl, cg>>

\* checkExistingDownload on the same directory and pattern:
\* files.find(file => expectedFilenamePattern.test(file)), then size > 0
CheckExistingDownloadScan ==
    /\ scan.op = "none"
    /\ LET hits == {i \in DOMAIN scan.files : test(scan.pattern, scan.files[i].name)}
       IN scan' = IF hits # {} /\ scan.files[Leftmost(hits)].size > 0
                  THEN [scan EXCEPT !.op = "checkExistingDownload", !.outcome = "path",
                                    !.found = scan.files[Leftmost(hits)].name]
                  ELSE [scan EXCEPT !.op = "checkExistingDownload", !.outcome = "null"]
    /\ UNCHANGED <<pc, fn, headless, page, safe, ra, touched, ret, ncalls, lg, mf, mail, dl, cg>>

ScanNext ==
    \/ WaitForDownloadPoll
    \/ WaitForDownloadTimeout
    \/ DownloadCompletes
    \/ CheckExistingDownloadScan

SpecScan == ScanInit /\ [][ScanNext]_vars


\* ========================================================= caregiver batch
\* the records returned by the work board (getCaregiversReadyForEntry: the
\* items whose status is readyStatusValue), the limit and the dry-run flag;
\* board: the status column of each of them
BatchInit ==
    /\ pc = "idle"
    /\ fn = "none"
    /\ headless = FALSE
    /\ page = [url |-> Url.home, loginForm |-> FALSE, landedEl |-> TRUE, mfaEl |-> FALSE]
    /\ safe = SafeIdle
    /\ ra = RaIdle
    /\ touched = {}
    /\ ret = "none"
    /\ ncalls = 0
    /\ lg = LgIdle
    /\ mf = MfIdle
    /\ mail = MailIdle
    /\ dl = DlIdle
    /\ scan = ScanIdle
    /\ \E n \in 0..MaxRecords, limit \in 0..MaxRecords, dryRun \in BOOLEAN :
         cg = [CgIdle EXCEPT !.caregivers = n, !.limit = limit, !.dryRun = dryRun,
                             !.board = [k \in 1..n |-> "ready"]]

\* caregiversToProcess = argv.limit ? caregivers.slice(0, argv.limit) : caregivers
caregiversToProcess(c) ==
    IF c.limit # 0 /\ c.limit < c.caregivers THEN c.limit ELSE c.caregivers

\* main, steps 1 and 2: nothing to do or a dry run returns; otherwise the
\* browser is launched and login runs once; a failed login throws
BatchLogin ==
    /\ cg.stage = "idle"
    /\ IF cg.caregivers = 0 \/ cg.dryRun
       THEN cg' = [cg EXCEPT !.stage = "returned"]
       ELSE \E loginSuccess \in BOOLEAN :
              cg' = IF loginSuccess
                    THEN [cg EXCEPT !.stage = "loop", !.session = "live"]
                    ELSE [cg EXCEPT !.stage = "failed"]
    /\ UNCHANGED <<pc, fn, headless, page, safe, ra, touched, ret, ncalls, lg, mf, mail, dl, scan>>

\* the site ends the session while the batch is running
SessionExpires ==
    /\ cg.stage \in {"loop", "fill", "submit", "verify", "entered"}
    /\ cg.session = "live"
    /\ cg' = [cg EXCEPT !.session = "expired"]
    /\ UNCHANGED <<pc, fn, headless, page, safe, ra, touched, ret, ncalls, lg, mf, mail, dl, scan>>

\* variant: an error thrown inside enterCaregiver reaches the loop of main
entryEscapesOnThrow(outcome) == outcome = "caught"

\* enterCaregiver wraps its four steps in try/catch and returns false from
\* the catch block: no error reaches the caller
entryEscapes(outcome) == FALSE

\* enterCaregiver returns (or, in the variant, lets the error through)
entered(c, outcome) ==
    IF entryEscapes(outcome) THEN [c EXCEPT !.stage = "failed"]
    ELSE [c EXCEPT !.stage = "entered", !.entry = outcome]

\* enterCaregiver(page, caregiver, ...) for record i + 1, step 1: navigate to
\* the form, on the session as it is; a false result is only logged
EnterCaregiver ==
    /\ cg.stage = "loop"
    /\ cg.i < caregiversToProcess(cg)
    /\ \E caregiver \in [email : {"", "a@b"}, address2 : {"", "Apt 2"},
                        preferredLocations : {"", "Albany"}],
          threw \in BOOLEAN :
         cg' = IF threw
               THEN entered([cg EXCEPT !.navOn = cg.session, !.caregiver = caregiver],
                            "caught")
               ELSE [cg EXCEPT !.stage = "fill", !.navOn = cg.session,
                               !.caregiver = caregiver]
    /\ UNCHANGED <<pc, fn, headless, page, safe, ra, touched, ret, ncalls, lg, mf, mail, dl, scan>>

\* CAREGIVER_CONFIG.hhaExchange.fields, four of its entries: a fixed value,
\* a required source column, an optional one, an optional one with a default
fields ==
    <<[name |-> "caregiverType", required |-> TRUE, source |-> "none",
       fixedValue |-> "Employee", defaultValue |-> ""],
      [name |-> "email", required |-> TRUE, source |-> "email",
       fixedValue |-> "undefined", defaultValue |-> ""],
      [name |-> "addressLine2", required |-> FALSE, source |-> "address2",
       fixedValue |-> "undefined", defaultValue |-> ""],
      [name |-> "location", required |-> FALSE, source |-> "preferredLocations",
       fixedValue |-> "undefined", defaultValue |-> "Suffolk"]>>

\* extractFieldValue(caregiver, fieldConfig)
extractFieldValue(caregiver, fieldConfig) ==
    IF fieldConfig.fixedValue # "undefined" THEN fieldConfig.fixedValue
    ELSE IF fieldConfig.source = "none" THEN fieldConfig.defaultValue
    ELSE LET sourceValue == caregiver[fieldConfig.source]
         IN IF sourceValue = "" /\ fieldConfig.defaultValue # "" THEN fieldConfig.defaultValue
            ELSE sourceValue

\* the loop of fillCaregiverForm goes on to the next field when the value is
\* empty, with a debug line for an optional field and a warning for a
\* required one
fillSkips(value, fieldConfig) ==
    \/ value = "" /\ ~fieldConfig.required
    \/ value = "" /\ fieldConfig.required

\* step 2, fillCaregiverForm: every field with a value is filled, and the
\* fill of each can fail; false when the fill of a required field failed
FillCaregiverForm ==
    /\ cg.stage = "fill"
    /\ \E failing \in SUBSET {k \in DOMAIN fields :
                                 extractFieldValue(cg.caregiver, fields[k]) # ""},
          threw \in BOOLEAN :
         LET aborts == {k \in failing :
                           /\ ~fillSkips(extractFieldValue(cg.caregiver, fields[k]), fields[k])
                           /\ fields[k].required}
         IN cg' = IF threw THEN entered(cg, "caught")
                  ELSE IF aborts # {} THEN entered([cg EXCEPT !.fill = "false"], "false")
                  ELSE [cg EXCEPT !.stage = "submit", !.fill = "true"]
    /\ UNCHANGED <<pc, fn, headless, page, safe, ra, touched, ret, ncalls, lg, mf, mail, dl, scan>>

\* step 3, submitCaregiverForm: false when safeClick on the submit button
\* gave false; after the click waitForStableUI may throw
SubmitCaregiverForm ==
    /\ cg.stage = "submit"
    /\ \E outcome \in {"clicked", "click_false", "throw"} :
         cg' = CASE outcome = "click_false" -> entered(cg, "false")
                 [] outcome = "throw" -> entered([cg EXCEPT !.submitted = TRUE], "caught")
                 [] OTHER -> [cg EXCEPT !.stage = "verify", !.submitted = TRUE]
    /\ UNCHANGED <<pc, fn, headless, page, safe, ra, touched, ret, ncalls, lg, mf, mail, dl, scan>>

\* notices the page may show after the submit
Notice ==
    [added |-> <<"S","t","a","f","f"," ","s","u","c","c","e","s","s","f","u","l","l","y"," ","a","d","d","e","d">>,
     saved |-> <<"S","u","c","c","e","s","s">>,
     invalid |-> <<"I","n","v","a","l","i","d"," ","e","m","a","i","l">>,
     none |-> <<>>]

\* text.includes('successfully') || text.includes('success'), on the lower
\* case text of a div
successText(notice) ==
    \/ includes(toLowerCase(notice), <<"s","u","c","c","e","s","s","f","u","l","l","y">>)
    \/ includes(toLowerCase(notice), <<"s","u","c","c","e","s","s">>)

\* variant: an outcome that cannot be confirmed counts as a success
verifyUnconfirmedAssumed == "true"

\* the last statement of verifyCaregiverAdded: return false
verifyUnconfirmed == "false"

\* verifyCaregiverAdded: success text, then the configured success
\* indicators, then the error elements and validation errors
verifyCaregiverAdded(seen) ==
    IF successText(seen.notice) THEN "true"
    ELSE IF seen.indicator THEN "true"
    ELSE IF seen.error THEN "false"
    ELSE verifyUnconfirmed

\* step 4: the page after the submit is inspected; enterCaregiver returns
\* true when verifyCaregiverAdded does
VerifyCaregiverAdded ==
    /\ cg.stage = "verify"
    /\ \E notice \in {Notice[n] : n \in DOMAIN Notice}, indicator \in BOOLEAN,
          error \in BOOLEAN :
         /\ (cg.session # "live") => (~successText(notice) /\ ~indicator)
         /\ LET seen == [notice |-> notice, indicator |-> indicator, error |-> error]
                verifySuccess == verifyCaregiverAdded(seen)
            IN cg' = entered([cg EXCEPT !.seen = seen, !.verify = verifySuccess],
                             verifySuccess)
    /\ UNCHANGED <<pc, fn, headless, page, safe, ra, touched, ret, ncalls, lg, mf, mail, dl, scan>>

\* variant: the status of every processed record is updated
updatesStatusAlways(entrySuccess) == TRUE

\* markCaregiverAsEntered is called in the entrySuccess branch only
updatesStatus(entrySuccess) == entrySuccess

\* the rest of the loop body: count and record the result; for a success,
\* markCaregiverAsEntered sets the status on the work board to
\* completedStatusValue; its error is caught and logged
BatchRecord ==
    /\ cg.stage = "entered"
    /\ LET entrySuccess == (cg.entry = "true")
           counted == [cg EXCEPT !.stage = "loop", !.i = cg.i + 1, !.entry = "none",
                                 !.navOn = "none", !.caregiver = CgIdle.caregiver,
                                 !.fill = "none", !.submitted = FALSE,
                                 !.seen = CgIdle.seen, !.verify = "none",
                                 !.successful = IF entrySuccess THEN @ + 1 ELSE @,
                                 !.failed = IF entrySuccess THEN @ ELSE @ + 1]
           item == [record |-> cg.i + 1,
                    status |-> IF entrySuccess THEN "success" ELSE "failed",
                    entry |-> cg.entry, navOn |-> cg.navOn, update |-> "none"]
       IN IF updatesStatus(entrySuccess)
          THEN \E update \in {"ok", "error"} :
                 cg' = [counted EXCEPT
                          !.log = Append(cg.log, [item EXCEPT !.update = update]),
                          !.board[cg.i + 1] = IF update = "ok" THEN "completed" ELSE @]
          ELSE cg' = [counted EXCEPT !.log = Append(cg.log, item)]
    /\ UNCHANGED <<pc, fn, headless, page, safe, ra, touched, ret, ncalls, lg, mf, mail, dl, scan>>

\* the loop ends: step 4, the summary
BatchSummary ==
    /\ cg.stage = "loop"
    /\ ~(cg.i < caregiversToProcess(cg))
    /\ cg' = [cg EXCEPT !.stage = "summary"]
    /\ UNCHANGED <<pc, fn, headless, page, safe, ra, touched, ret, ncalls, lg, mf, mail, dl, scan>>

BatchNext ==
    \/ BatchLogin
    \/ SessionExpires
    \/ EnterCaregiver
    \/ FillCaregiverForm
    \/ SubmitCaregiverForm
    \/ VerifyCaregiverAdded
    \/ BatchRecord
    \/ BatchSummary

SpecBatch == BatchInit /\ [][BatchNext]_vars


\* ====================================================================
\* Properties
\* ====================================================================
Count(seq, S) == Cardinality({i \in DOMAIN seq : seq[i] \in S})

SafeFailures == Count(safe.trace, {"wait_throw", "act_throw"})
SafeAttempts == Count(safe.trace, {"wait_ok", "wait_throw"})
SafeActive   == safe.kind \in {"click", "fill"}
InLogin      == fn \in {"login", "ensureLoggedIn"} /\ lg.ranLogin

\* C1: for every page behaviour and every maxRetries >= 0, safeClick and
\* safeFill never throw; they have returned true as soon as one attempt
\* succeeded, and they return false exactly when all maxRetries+1 attempts
\* have failed.
C1_SafeNeverThrows ==
    (SafeActive /\ safe.maxRetries >= 0) =>
        /\ safe.result # "throw"
        /\ (Count(safe.trace, {"act_ok"}) > 0) =>
               (safe.step = "done" /\ safe.result = "true")
        /\ (safe.result = "true") =>
               (safe.trace # <<>> /\ safe.trace[Len(safe.trace)] = "act_ok")
        /\ (safe.step = "done" /\ safe.result # "true") =>
               (safe.result = "false" /\ SafeFailures = safe.maxRetries + 1
                  /\ Count(safe.trace, {"act_ok"}) = 0)
        /\ (safe.step # "done") => (safe.result = "none" /\ SafeFailures <= safe.maxRetries + 1)

\* all three attempts of a default call failed, in both ways, and the call
\* returned false
C1_Witness ==
    /\ SafeActive /\ safe.maxRetries = DefaultMaxRetries
    /\ safe.step = "done" /\ safe.result = "false"
    /\ Count(safe.trace, {"wait_throw"}) > 0
    /\ Count(safe.trace, {"act_throw"}) > 0

\* C2: safeClick and safeFill perform at most maxRetries+1 attempts (3 by
\* default), perform no attempt after a successful one, and in every attempt
\* the wait for visibility has completed before the click or fill is issued.
C2_BoundedOrderedAttempts ==
    SafeActive =>
        /\ (safe.maxRetries >= 0) => (SafeAttempts <= safe.maxRetries + 1)
        /\ (safe.maxRetries < 0) => (SafeAttempts = 0)
        /\ (safe.maxRetries = DefaultMaxRetries) => (SafeAttempts <= 3)
        /\ \A i \in DOMAIN safe.trace :
             /\ (safe.trace[i] \in {"act_ok", "act_throw"}) =>
                    (i > 1 /\ safe.trace[i-1] = "wait_ok")
             /\ (safe.trace[i] = "act_ok") => (i = Len(safe.trace))
        /\ (safe.step = "act") =>
               (safe.trace # <<>> /\ safe.trace[Len(safe.trace)] = "wait_ok")

\* a default call that succeeded on its third and last attempt
C2_Witness ==
    /\ SafeActive /\ safe.maxRetries = DefaultMaxRetries
    /\ safe.step = "done" /\ safe.result = "true"
    /\ SafeAttempts = 3

\* C3: retryAction returns the result of the first attempt that does not
\* throw and makes no further attempt; if all maxRetries+1 attempts throw,
\* it throws the error of the last attempt.
C3_RetryActionResult ==
    (ra.step # "idle" /\ ra.maxRetries >= 0) =>
        /\ Len(ra.outcomes) <= ra.maxRetries + 1
        /\ \A i \in DOMAIN ra.outcomes :
             (ra.outcomes[i] # "throw") =>
                 /\ i = Len(ra.outcomes)
                 /\ ra.step = "done" /\ ra.result = "return"
                 /\ ra.value = ra.outcomes[i]
        /\ (ra.step = "done" /\ ra.result = "return") =>
               (ra.outcomes # <<>> /\ ra.outcomes[Len(ra.outcomes)] = ra.value
                  /\ ra.value \in ActionResults)
        /\ (ra.step = "done" /\ ra.result = "throw") =>
               /\ Len(ra.outcomes) = ra.maxRetries + 1
               /\ \A i \in DOMAIN ra.outcomes : ra.outcomes[i] = "throw"
               /\ ra.thrown = Len(ra.outcomes)
        /\ (ra.step # "done") => (ra.result = "none")

\* three attempts threw and the third error reached the caller
C3_Witness ==
    /\ ra.step = "done" /\ ra.result = "throw"
    /\ ra.maxRetries = 2 /\ ra.thrown = 3

\* C4: in performCredentialEntry, when the username fill fails all its
\* attempts the authenticator reports failure and neither the password fill
\* nor the submit click is attempted; when the password fill fails, the
\* submit click is not attempted.
C4_CredentialEntryStopsOnFailure ==
    /\ (lg.credFailed = "username") =>
           /\ touched \cap {"password", "submit"} = {}
           /\ pc = "done" /\ ret = "false"
    /\ (lg.credFailed = "password") =>
           /\ "submit" \notin touched
           /\ pc = "done" /\ ret = "false"
    /\ (lg.credFailed = "submit") => (pc = "done" /\ ret = "false")
    /\ ("password" \in touched) => ("username" \in touched)
    /\ ("submit" \in touched) => ("password" \in touched)

C4_Witness ==
    /\ InLogin /\ lg.credFailed = "username"
    /\ "username" \in touched
    /\ pc = "done" /\ ret = "false"

\* C5: with an MFA challenge detected, no code retrieved and a headless run,
\* handleMFA fails immediately: the landing-page wait is not entered and
\* login returns false.
C5_HeadlessNoCodeFailsFast ==
    (InLogin /\ lg.path = "mfa" /\ lg.code = "null" /\ headless) =>
        /\ pc = "done" /\ ret = "false"
        /\ lg.landing = "none" /\ lg.polls = 0
        /\ ~lg.prompted

C5_Witness ==
    /\ InLogin /\ lg.path = "mfa" /\ lg.code = "null" /\ headless
    /\ pc = "done" /\ ret = "false"

\* C6: with an MFA challenge detected, no code retrieved and a headful run,
\* the authenticator suspends on the console prompt and landing-page
\* detection does not start before the operator's resume signal.
C6_HeadfulNoCodePromptsFirst ==
    (InLogin /\ lg.path = "mfa" /\ lg.code = "null" /\ ~headless) =>
        /\ lg.prompted
        /\ (pc \in {"mfa_landing_delay", "landing_poll", "final_delay",
                    "final_check", "done"}) => lg.resumed

\* C7: login returns true only if its final detectLoggedOut found no
\* logged-out indicator; whenever that re-check finds one, login returns
\* false.
C7_FinalRecheckDecides ==
    /\ (InLogin /\ pc = "done" /\ ret = "true") =>
           /\ lg.finalLoggedOut = "false"
           /\ \E q \in BOOLEAN : ~detectLoggedOut(page, q)
    /\ (InLogin /\ lg.finalLoggedOut = "true") =>
           /\ pc = "done" /\ ret = "false"
           /\ \E q \in BOOLEAN : detectLoggedOut(page, q)

\* the landing page was detected, yet the final re-check found the session
\* logged out and login failed
C7_Witness ==
    /\ InLogin /\ lg.landing = "detected"
    /\ lg.finalLoggedOut = "true"
    /\ pc = "done" /\ ret = "false"

\* C8 as stated: on both paths login never returns true in an execution
\* where waitForLandingPage timed out.
C8_NoSuccessAfterLandingTimeout ==
    (InLogin /\ pc = "done" /\ ret = "true") => lg.landing = "detected"

\* C8 amended: on the MFA path a timeout of waitForLandingPage makes login
\* return false; on the no-MFA path the timeout is only logged, and login
\* then returns true exactly when the final re-check finds no logged-out
\* indicator.
C8_LandingTimeoutByPath ==
    /\ (InLogin /\ lg.path = "mfa" /\ lg.landing = "timeout") =>
           (pc = "done" /\ ret = "false" /\ lg.finalLoggedOut = "none")
    /\ (InLogin /\ pc = "done" /\ ret = "true") =>
           (lg.landing = "detected" \/ (lg.path = "nomfa" /\ lg.landing = "timeout"))
    /\ (InLogin /\ pc = "done" /\ lg.path = "nomfa" /\ lg.landing = "timeout") =>
           /\ lg.finalLoggedOut \in {"true", "false"}
           /\ (ret = "true") = (lg.finalLoggedOut = "false")

C8_Witness ==
    /\ InLogin /\ lg.path = "mfa" /\ lg.landing = "timeout"
    /\ pc = "done" /\ ret = "false"

\* C9: the URL-based landing condition is satisfied only for URLs without
\* login or MFA markers: no URL that detectMFA treats as an MFA challenge
\* makes waitForLandingPage report landing through it, and login does not
\* report success while the page is on an MFA challenge URL.
C9_UrlLandingExcludesMfaUrls ==
    /\ (pc = "final_delay" /\ lg.landedBy = "urlchange") => ~mfaUrl(page.url)
    /\ (InLogin /\ pc = "done" /\ ret = "true") => ~mfaUrl(page.url)

\* C10: ensureLoggedIn checks liveness first.  A live session makes it
\* return true at once, with the page as it was and no navigation, fill or
\* click issued, on the first call and on a repeated one; login runs only
\* after the liveness check reported logged out, and its result is returned.
C10_EnsureStep ==
    (pc = "ensure_verify") =>
        \/ /\ \E q \in BOOLEAN : ~detectLoggedOut(page, q)
           /\ pc' = "done" /\ ret' = "true"
           /\ page' = page
           /\ touched = {} /\ touched' = {}
           /\ ~lg'.ranLogin
        \/ /\ \E q \in BOOLEAN : detectLoggedOut(page, q)
           /\ pc' = "login_goto" /\ ret' = "none"
           /\ page' = page /\ touched' = {}
           /\ lg'.ranLogin

C10_EnsureState ==
    (fn = "ensureLoggedIn") =>
        /\ (touched # {}) => (lg.ranLogin /\ lg.live = "false")
        /\ (lg.ranLogin) => (lg.live = "false")
        /\ (lg.live = "true") => (pc = "done" /\ ret = "true" /\ touched = {})
        /\ (pc = "done" /\ ret # "true") => lg.ranLogin

C10_EnsureLoggedInGuard == [][C10_EnsureStep]_vars /\ []C10_EnsureState

\* the second call of a run finds the session live and returns true
C10_Witness ==
    /\ fn = "ensureLoggedIn" /\ ncalls = 2
    /\ lg.live = "true" /\ pc = "done" /\ ret = "true"
    /\ touched = {}

\* C11 as stated: any exception raised during navigation or field
\* interaction inside login is re-thrown to the caller and never becomes a
\* normal return.
C11_AnyExceptionRethrown ==
    (InLogin /\ pc = "done" /\ (lg.caught # "none" \/ lg.credFailed # "none")) =>
        ret = "throw"

\* C11 amended: an exception that reaches login's try block (page.goto,
\* waitForStableUI) is caught, a screenshot is attempted and the same
\* exception is thrown to the caller, also when the screenshot fails; an
\* exception of a field interaction is absorbed by safeFill / safeClick and
\* makes login return false once all attempts have failed.
C11_EscapedExceptionRethrown ==
    /\ (InLogin /\ lg.caught # "none") =>
           /\ pc \in {"login_catch", "done"}
           /\ (pc = "done") =>
                  (ret = "throw" /\ lg.thrown = lg.caught /\ lg.shots >= 1)
    /\ (InLogin /\ pc = "done" /\ ret = "throw") =>
           (lg.caught # "none" /\ lg.thrown = lg.caught)
    /\ (InLogin /\ pc = "login_catch") => lg.caught # "none"
    /\ (InLogin /\ pc = "done" /\ lg.credFailed # "none") =>
           (ret = "false" /\ lg.caught = "none")

\* page.goto threw, the screenshot failed too, and the caller still got the
\* error of page.goto
C11_Witness ==
    /\ InLogin /\ pc = "done" /\ ret = "throw"
    /\ lg.caught = "goto_error" /\ lg.shotFailed
    /\ lg.thrown = "goto_error"


\* ------------------------------------------------------------------ C13
MfActive == mf.step \notin {"idle", "done"}

\* mail-API checks that fit into the wait window when each costs checkInterval
GraphChecksBound == maxWaitTime \div checkInterval

GraphRemaining(elapsed) == (maxWaitTime + 2 * checkInterval - elapsed) \div checkInterval

\* a natural number that every step of the retrieval strictly decreases
MfMeasure(m) ==
    LET G == 2 * GraphRemaining(0) IN
    CASE m.step = "entry"        -> G + 2 * maxAttempts + 7
      [] m.step = "imap_entry"   -> G + 2 * maxAttempts + 6
      [] m.step = "imap_check"   -> G + 2 * (maxAttempts - m.attempt) + 5
      [] m.step = "imap_wait"    -> G + 2 * (maxAttempts - m.attempt) + 4
      [] m.step = "graph_cfg"    -> G + 2
      [] m.step = "graph_token"  -> G + 1
      [] m.step = "graph_loop"   -> 2 * GraphRemaining(m.elapsed)
      [] m.step = "graph_search" -> 2 * GraphRemaining(m.elapsed) - 1
      [] OTHER                   -> 0

C13_State ==
    /\ (mf.step \in {"imap_check", "imap_wait"}) => mf.attempt \in 1..maxAttempts
    /\ (mf.step = "graph_search") => mf.elapsed < maxWaitTime
    /\ mf.graphChecks <= GraphChecksBound
    /\ (mf.lastCheck = "code") => (mf.step = "done" /\ mf.result = "code")
    /\ (mf.result = "code") => mf.lastCheck = "code"
    /\ (mf.step = "done" /\ mf.lastCheck = "empty") =>
           /\ mf.result = "null"
           /\ (mf.graphChecks > 0) => mf.elapsed >= maxWaitTime
    /\ MfMeasure(mf) \in Nat

C13_Step == (MfActive /\ mf' # mf) => MfMeasure(mf') < MfMeasure(mf)

\* C13: code retrieval polls a bounded number of times and terminates:
\* getMFACodeViaIMAP makes at most 18 mailbox checks, the mail-API loop starts
\* a check only inside the wait window, each returns the code at the first
\* check that finds one and null when its bound is exhausted, and every step
\* of the retrieval decreases a natural-number measure.
C13_BoundedPolling == []C13_State /\ [][C13_Step]_vars

\* both strategies ran to their bound and the retrieval returned null
C13_Witness ==
    /\ mf.step = "done" /\ mf.result = "null"
    /\ mf.imapExit = "exhausted"
    /\ mf.graphChecks = GraphChecksBound /\ mf.elapsed >= maxWaitTime

\* ------------------------------------------------------------------ C14
\* C14: getMFACodeFromEmail never throws: without retrieval credentials and
\* whenever a transport step fails it returns null, and in headful mode login
\* then goes on to the landing wait instead of failing for the missing code.
C14_RetrievalNeverThrows ==
    /\ mf.result # "throw"
    /\ (mf.step = "done" /\ mf.failed /\ mf.lastCheck # "code") => mf.result = "null"
    /\ (mf.step = "done" /\ ~mf.env.emailPassword /\ ~mf.env.azure) =>
           (mf.result = "null" /\ mf.graphChecks = 0 /\ mf.lastCheck = "none")
    /\ (InLogin /\ lg.caught = "mfa_error") => FALSE
    /\ (InLogin /\ ~headless /\ lg.code = "null") =>
           /\ lg.codeWhy \in {"unconfigured", "transport", "timeout"}
           /\ pc \in {"mfa_landing_delay", "landing_poll", "final_delay", "final_check", "done"}
           /\ (pc = "done") => lg.landing # "none"

\* headful login that got null from a failed transport step and still succeeded
C14_Witness ==
    /\ InLogin /\ ~headless /\ pc = "done" /\ ret = "true"
    /\ lg.code = "null" /\ lg.codeWhy = "transport"

\* ------------------------------------------------------------------ C12
\* C12: for both retrieval strategies, a message received before the
\* challenge-start timestamp is never the source of the returned code.
C12_NoStaleSource ==
    (mail.op \in {"imap", "outlook"} /\ mail.source # 0) =>
        mail.box[mail.source].received >= mail.startTime

\* ------------------------------------------------------------------ C15
isSixDigits(c) == Len(c) = 6 /\ \A i \in 1..6 : c[i] \in Digits

hasSixDigitRun(s) == \E p \in 1..Len(s) : digitsAt(s, p)

\* C15: extraction applies the patterns in the listed order and returns the
\* capture of the first one that matches; the result is null or exactly six
\* digits, and null for every body without a run of six digits.
C15_FirstPatternWins ==
    /\ (mail.op \in {"extract", "extractFromEmail"}) =>
          /\ (mail.matched = 0) <=> (\A k \in 1..6 : patternMatch(k, mail.body) = null)
          /\ (mail.matched = 0) => mail.code = null
          /\ (mail.matched # 0) =>
                /\ mail.code = patternMatch(mail.matched, mail.body)
                /\ \A k \in 1..(mail.matched - 1) : patternMatch(k, mail.body) = null
          /\ ~hasSixDigitRun(mail.body) => mail.code = null
    /\ mail.code = null \/ isSixDigits(mail.code)

\* a body that matches the fifth and the sixth pattern with different captures
C15_Witness ==
    /\ mail.op = "extract" /\ mail.body = Body.two_codes
    /\ mail.matched = 5
    /\ mail.code = <<"6","5","4","3","2","1">>

\* ------------------------------------------------------------------ C16
\* C16: in triggerAndWaitForDownload the download listener is armed before
\* the trigger click is issued, so a download event that fires right after
\* the click is never missed.
C16_ListenerArmedBeforeClick ==
    /\ dl.event # "missed"
    /\ (dl.step = "trigger" /\ dl.k \in 1..2 /\ triggerOrder[dl.k] = "click") => dl.listening
    /\ (dl.event \in {"pending", "captured"}) => dl.listening

\* the event fired while the function was about to await it, and was captured
C16_Witness ==
    /\ dl.step = "trigger" /\ dl.k = 3
    /\ dl.event = "captured" /\ dl.clicks >= 1

\* ------------------------------------------------------------------ C17
\* C17: a download failure is not retried: within one execution of the report
\* pipeline the download trigger is clicked at most once, also when the
\* download-start event times out or the saved file fails validation.
C17_TriggerClickedAtMostOnce == dl.clicks <= 1

\* ------------------------------------------------------------------ C18
validFile(dir, name) ==
    /\ name \in expectedFilenamePattern
    /\ dir[name] # Absent
    /\ dir[name] >= minSizeBytes

\* C18: every path returned by runReport, fresh or reused, names a file that
\* matches the expected pattern and has at least the minimum size.
C18_ReturnedFileIsValid ==
    (dl.step = "done" /\ dl.result = "path") => validFile(dl.dir, dl.path)

\* ------------------------------------------------------------------ C19
\* C19: after any execution of triggerAndWaitForDownload, including one that
\* ends with 'Downloaded file failed verification', no file that fails
\* validation is left in the download directory.
C19_NoInvalidFileLeft ==
    (dl.trigger \in {"returned", "failed_verification"} /\ dl.target # "none") =>
        validFile(dl.dir, dl.target)

\* ------------------------------------------------------------------ C20
\* (read in the states that follow the check, before the directory changes)
\* C20: checkExistingDownload returns a path whenever the directory holds at
\* least one non-empty file matching the pattern and null only when there is
\* none; the file it returns is non-empty and matching.
C20_ExistingFoundWhenPresent ==
    (dl.checked /\ (dl.step = "exec" \/ (dl.step = "done" /\ dl.existing # "none"))) =>
        /\ (\E n \in expectedFilenamePattern : dl.dir[n] # Absent /\ dl.dir[n] > 0)
               <=> (dl.existing # "none")
        /\ (dl.existing # "none") =>
               (dl.existing \in expectedFilenamePattern /\ dl.dir[dl.existing] > 0)

\* C21: a file with a partial-download extension (.crdownload, .tmp, .part)
\* is never returned by a scan of the download directory, whichever of
\* waitForDownload and checkExistingDownload ran and whatever the pattern
C21_NoPartialFileReturned ==
    (scan.outcome = "path") => ~isPartial(scan.found)

\* C21, the half that holds: waitForDownload never returns a partial file
C21_WaitForDownloadSkipsPartial ==
    (scan.op = "waitForDownload" /\ scan.outcome = "path") => ~isPartial(scan.found)


\* C22: when the previous call of runReport, not forced, ran the pipeline and
\* returned a path, a second call with the same report, date range and
\* directory, not forced either, never enters the pipeline and returns an
\* existing file
C22_SecondCallSkipsPipeline ==
    (dl.prev # "none" /\ dl.prev = dl.range /\ ~dl.force) =>
        /\ ~dl.pipeline
        /\ (dl.step = "done" /\ dl.fail = "none") =>
               (dl.result = "path" /\ dl.existing # "none")

\* C23: a file that runReport returns without running the pipeline was not
\* written by a run for another date range
C23_ReusedFileHasSameParameters ==
    (dl.step = "done" /\ dl.result = "path" /\ ~dl.pipeline /\ dl.made.name = dl.path) =>
        (dl.made.range = dl.range)

\* C24: a run that ends with 'Invalid report definition' has launched no
\* browser, navigated to no login page and made no page call
C24_InvalidDefinitionRejectedFirst ==
    (dl.step = "done" /\ dl.fail = "Invalid report definition") =>
        (~dl.launched /\ ~dl.pipeline)

\* C24, the part that holds: runReport itself makes no page call and reads
\* no directory before it rejects an invalid definition
C24_RunReportRejectsBeforePageCalls ==
    (dl.step = "done" /\ dl.fail = "Invalid report definition") =>
        (~dl.pipeline /\ dl.stages = <<>> /\ ~dl.checked)

\* C25: once the click of a menu step has failed all its attempts, no later
\* stage is started and the execution ends by throwing
C25_FailedMenuClickAborts ==
    \A i \in dl.failedClicks :
        (dl.stages[i] = "menu") =>
            /\ i = Len(dl.stages)
            /\ dl.step \in {"exec_catch", "done"}
            /\ (dl.step = "done") => (dl.result = "throw")

\* position of a stage in the order of executeReportDownload
stageRank(stage) ==
    CASE stage = "auth" -> 1 [] stage = "goto" -> 2 [] stage = "menu" -> 3
      [] stage = "dates" -> 4 [] stage = "run" -> 5 [] stage = "trigger" -> 6
      [] OTHER -> 7

\* C26: the stages start in the order auth, goto, menu, dates, run, trigger,
\* validate; no stage starts after a stage that did not succeed; the trigger
\* is not issued when ensureLoggedIn returned false or the date fill failed
C26_StagesInOrderAfterSuccess ==
    /\ \A i, j \in DOMAIN dl.stages :
           (i < j) => /\ stageRank(dl.stages[i]) <= stageRank(dl.stages[j])
                      /\ (dl.stages[i] = dl.stages[j]) => (dl.stages[i] = "menu")
    /\ \A i \in dl.failedClicks : i = Len(dl.stages) /\ dl.step \in {"exec_catch", "done"}
    /\ (dl.fail \in {"auth", "dates"}) => (dl.clicks = 0 /\ dl.trigger = "none")

\* C26, the part that holds: the order of the stages, and no trigger after
\* a failed ensureLoggedIn or date fill
C26_StageOrder ==
    /\ \A i, j \in DOMAIN dl.stages :
           (i < j) => /\ stageRank(dl.stages[i]) <= stageRank(dl.stages[j])
                      /\ (dl.stages[i] = dl.stages[j]) => (dl.stages[i] = "menu")
    /\ (dl.fail \in {"auth", "dates"}) =>
           (\A i \in DOMAIN dl.stages : dl.stages[i] # "trigger") /\ dl.trigger = "none"

\* C27: whatever validateDownloadedFile met, executeReportDownload returns
\* the downloaded path and does not throw
C27_ValidationIsAdvisory ==
    (dl.validation # "none") =>
        /\ dl.step \in {"done", "exited"}
        /\ dl.result = "path" /\ dl.path = dl.target /\ dl.fail = "none"

C27_Witness ==
    /\ dl.validation = "read_error"
    /\ dl.step = "done" /\ dl.result = "path" /\ dl.path = dl.target


\* C28: a record whose entry fails or throws does not abort the batch: the
\* records logged are the first i records, each once and in order, each a
\* success or a failure, the two counters add up to their number, and the
\* summary is reached only when every selected record was processed
C28_BatchProcessesEveryRecord ==
    /\ Len(cg.log) = cg.i
    /\ \A k \in DOMAIN cg.log :
           cg.log[k].record = k /\ cg.log[k].status \in {"success", "failed"}
    /\ cg.successful = Cardinality({k \in DOMAIN cg.log : cg.log[k].status = "success"})
    /\ cg.successful + cg.failed = Len(cg.log)
    /\ (cg.stage = "failed") => (cg.log = <<>> /\ cg.entry = "none" /\ cg.navOn = "none")
    /\ (cg.stage = "summary") => (Len(cg.log) = caregiversToProcess(cg))

C28_Witness ==
    /\ cg.stage = "summary"
    /\ Len(cg.log) = 2
    /\ cg.log[1].entry = "caught" /\ cg.log[1].status = "failed"
    /\ cg.log[2].status = "success"

\* C29: the status of a record is updated on the work board only if
\* enterCaregiver returned true for it
C29_StatusUpdateOnlyOnSuccess ==
    \A k \in DOMAIN cg.log : (cg.log[k].update # "none") => (cg.log[k].entry = "true")

C29_Witness ==
    /\ Len(cg.log) = 2
    /\ cg.log[1].entry = "false" /\ cg.log[1].update = "none"
    /\ cg.log[2].entry = "true" /\ cg.log[2].update = "ok"

\* C30: the form navigation of a record never starts on a session that is
\* logged out
C30_NoEntryOnExpiredSession ==
    /\ cg.navOn # "expired"
    /\ \A k \in DOMAIN cg.log : cg.log[k].navOn # "expired"


\* C31: when a required field of the mapping table resolves to no value for
\* the record, fillCaregiverForm does not report success and the form is not
\* submitted
C31_MissingRequiredFieldAborts ==
    (\E k \in DOMAIN fields :
        fields[k].required /\ extractFieldValue(cg.caregiver, fields[k]) = "") =>
        (cg.fill # "true" /\ ~cg.submitted)

\* C32: verifyCaregiverAdded reports success only when success phrasing or a
\* configured success indicator was found; with neither a success nor an
\* error indicator it reports failure; enterCaregiver returns true only
\* after verifyCaregiverAdded reported success
C32_UnconfirmedIsFailure ==
    /\ (cg.verify = "true") => (successText(cg.seen.notice) \/ cg.seen.indicator)
    /\ (cg.verify # "none" /\ ~successText(cg.seen.notice) /\ ~cg.seen.indicator
            /\ ~cg.seen.error) => (cg.verify = "false")
    /\ (cg.entry = "true") => (cg.verify = "true" /\ cg.submitted)
    /\ \A k \in DOMAIN cg.log : (cg.log[k].entry = "true") => (cg.log[k].status = "success")

C32_Witness ==
    /\ cg.stage = "entered" /\ cg.submitted
    /\ cg.seen = [notice |-> Notice.none, indicator |-> FALSE, error |-> FALSE]
    /\ cg.verify = "false" /\ cg.entry = "false"

C34_PauseNeverShrinks ==
    /\ \A i, j \in DOMAIN safe.pauses : (i < j) => (safe.pauses[i] <= safe.pauses[j])
    /\ \A i, j \in DOMAIN ra.pauses : (i < j) => (ra.pauses[i] <= ra.pauses[j])

\* C35: in headless mode login always terminates (it returns true, returns
\* false or throws): the console prompt is never reached and every wait on
\* the way (element visibility, mailbox polling, landing-page polling) ends
\* by a timeout or an attempt count
C35_HeadlessLoginTerminates ==
    /\ [](headless => (pc # "mfa_prompt" /\ ~lg.prompted))
    /\ (headless /\ fn \in {"login", "ensureLoggedIn"} /\ pc # "done") ~>
           (pc = "done" /\ ret \in {"true", "false", "throw"})

\* a headless login that polled the mailbox and the landing page to their
\* ends and returned
C35_Witness ==
    /\ headless
    /\ fn = "login"
    /\ pc = "done"
    /\ lg.path = "mfa"
    /\ lg.polls >= MaxPolls
    /\ lg.landing = "timeout"
    /\ ret = "false"

\* C36: the challenge-start time used to reject stale messages is not later
\* than the moment the credentials were submitted: a verification message
\* that arrives after the submit click and before the mailbox polling begins
\* passes the freshness test of the IMAP strategy
C36_StartTimeNotAfterSubmit ==
    (mail.submitted # -1 /\ mail.startTime # -1) =>
        /\ mail.startTime <= mail.submitted
        /\ \A i \in DOMAIN mail.box :
              (mail.box[i].received >= mail.submitted) =>
                  imapFresh(mail.box[i], mail.startTime)

\* C37: processResults resolves only after the parse callback of every
\* fetched message has run: when some fetched message is fresh, from an
\* accepted sender and holds a code, the value resolved after the 'end' event
\* and its timer is a code and not null, whatever the order of the callbacks,
\* the 'end' event and the timer
C37_ResolvesAfterEveryCallback ==
    (mail.pr.resolved = "timer") =>
        /\ mail.pr.parsed = mail.pr.ids
        /\ (imapFound(mail.box, mail.pr.ids \ mail.pr.erred, mail.startTime) # {}) =>
               (mail.pr.value # null)

\* C38: every record counted as successfully entered has left the 'ready'
\* status by the end of the run, so that a later run does not enter it again;
\* also when the status update on the work board fails
C38_EnteredRecordLeavesReady ==
    (cg.stage = "summary") =>
        \A k \in DOMAIN cg.log :
            (cg.log[k].status = "success") => (cg.board[cg.log[k].record] # "ready")

\* C39: the session identifier stored on a dashboard job is the run
\* identifier of the child run it spawned: downloads/<job.sessionId> is the
\* directory in which that run's file is saved, so the fallback lookup and
\* the download link built from job.sessionId find the file the run produced
C39_JobSessionIsChildSession ==
    /\ (dl.job.childSessionId # <<>>) => (dl.job.childSessionId = dl.job.sessionId)
    /\ \A f \in dl.job.files : f.dir = dl.job.sessionId
    /\ (dl.job.step = "closed" /\ dl.job.status = "completed") =>
           (dl.job.downloadedFile.name # "none")
    /\ (dl.job.step = "served") => (dl.job.response = "200")

====
